---- MODULE Spec2Model ----
(***************************************************************************)
(* Model of the backtrader fork viper7882/backtrader: the order state      *)
(* machine (order.py), the Oanda broker's handling of store events and      *)
(* brackets (oandabroker.py), the notification path to the strategy         *)
(* (cerebro.py, strategy.py) and the engine loop over several feeds         *)
(* (cerebro.py).                                                            *)
(***************************************************************************)
EXTENDS Integers, Sequences, FiniteSets, TLC

\* ------------------------------------------------------------------ bounds
MaxOrders == 3      \* orders a run creates
MaxEvents == 3      \* store events a run delivers
MaxTime == 2        \* bars the orders' data feed delivers
OrderSize == 2      \* size every order is created with
ValidAt == 1        \* the timestamp a good-till-date order is valid until
DayLen == 2         \* the timestamps of one day
MinPeriod == 2      \* the minimum period of the indicator on feed B
MaxInputs == 7      \* the 1-minute bars handed to a resampler
MaxLasts == 2       \* the calls of Resampler.last
MaxLateInputs == 3  \* the bars handed to a resampler in any order
MaxTicks == 4       \* the ticks handed to a replayer
MaxAdjusts == 3     \* the prices a trailing order is adjusted to
MaxFills == 3       \* the executed orders a strategy is notified of
MaxIndicators == 2  \* the indicators the strategies of a run create
MaxFeeds == 2       \* the feeds added to an engine whose order is followed
MaxSignalOrders == 4 \* the orders a signal strategy issues
MaxIterBars == 2    \* the iterations whose steps are followed
MaxIterOrders == 2  \* the orders the strategies issue in them
MaxNotifyEvents == 4 \* store events for the order whose notifications are followed
MaxBars == 3        \* bars a data feed holds at most
MaxStamp == 3           \* the latest timestamp a bar carries
MaxIdleTurns == 1       \* turns of _runnext in which no feed had data yet
MaxDay == 4             \* the latest calendar day a bar of a daily feed carries
MaxQueued == 4          \* notifications a store thread appends to the queue

None == 0           \* Python's None for a reference or a validity
BracketSize == 3    \* orders of a bracket: parent, stop side, limit side

Refs == 1..MaxOrders
FillSizes == {-OrderSize, -1, 1, OrderSize}
TTypes == {"ORDER_FILLED", "STOP_LOSS_FILLED", "TAKE_PROFIT_FILLED"}
Feeds == {"A", "B"}
Strats == <<"S1", "S2">>
Compressions == {2, 5}
Prices == {1, 2}
Stamps == 1..MaxStamp
Inf == MaxStamp + 1

Range(q) == {q[i] : i \in 1..Len(q)}

RECURSIVE SumSeq(_)
SumSeq(q) == IF q = <<>> THEN 0 ELSE q[1] + SumSeq(Tail(q))

\* the two loops of Cerebro.run_strategies
LoopModes == {"next", "once"}

\* date.max, as a day number no bar reaches
DateMax == 99

\* fill_price = None, the default of CalendarDays
NoFillPrice == [given |-> FALSE, value |-> 0]

Terminal == {"Completed", "Canceled", "Expired", "Margin", "Rejected"}
Marker == [ref |-> None, status |-> "None", exsize |-> 0, p1 |-> 0, p2 |-> 0]

VARIABLES
    nord,           \* Order.refbasis: refs handed out so far
    ordobj,         \* the Order objects, by ref
    orders,         \* OandaBroker.orders: refs written down in the broker
    opending,       \* OandaBroker.opending: parent ref -> orders held back
    brackets,       \* OandaBroker.brackets: parent ref -> bracket members
    notifs,         \* OandaBroker.notifs: clones waiting for the engine
    positions,      \* OandaBroker.positions: size held in the data feed
    sent,           \* groups handed to the store by order_create
    now,            \* datetime[0] of the orders' data feed
    exc,            \* exception the last operation raised ("none" if none)
    nevents,        \* store events delivered so far
    statuslog,      \* per order: every value assigned to its status, in order
    orderspending,  \* Strategy._orderspending
    notified,       \* the orders notify_order was called with, in order
    bars,           \* per data feed: the timestamps of the bars it holds
    flen,           \* per data feed: len(feed), the bars it has delivered
    runmode,        \* "next": Cerebro._runnext, "once": Cerebro._run_once
    sdatetime,      \* Strategy.lines.datetime, one slot per strategy step
    dlens,          \* Strategy._dlens
    running,        \* the engine's loop has not ended
    runpc,          \* where Cerebro.run_strategies stands
    _event_stop,    \* Cerebro._event_stop
    started,        \* the feeds that were started and not stopped since
    stopped,        \* the strategies whose _stop has run
    snexts,         \* per strategy: the calls of its _next
    stratidx,       \* the strategy the loop over runstrats is at
    ndelivered,     \* the turns of the loop in which the feeds delivered
    scalls,         \* the strategy's prenext / nextstart / next, in order
    icalls,         \* the same for an indicator whose clock is feed B
    rparams,        \* the parameters of the resampler of a feed
    rbar,           \* Resampler.bar, the open aggregate
    compcount,      \* Resampler.compcount
    rinputs,        \* the bars the feed has handed to the resampler
    rstack,         \* the bars the resampler has delivered
    rlast,          \* Resampler.last has been called
    lastret,        \* what the calls of Resampler.last returned, in order
    _firstbar,      \* Replayer._firstbar
    rstash,         \* the tick a replayer saved to the feed's stack
    torder,         \* a trailing stop order: its parameters and created data
    tlog,           \* the prices given to its trailadjust, and what they gave
    tposition,      \* the position of the feed the trades are on
    _trades,        \* Strategy._trades of that feed: the trades per tradeid
    _trades_pending, \* Strategy._trades_pending
    nfills,         \* the executed orders the strategy was notified of
    runcfg,         \* the parameters and the feeds Cerebro.run is called with
    _dorunonce,     \* Cerebro._dorunonce
    _dopreload,     \* Cerebro._dopreload
    indicators,     \* _nextforce of the indicators the strategies added
    looprun,        \* the loop run_strategies has entered
    datafeeds,      \* Cerebro.datafeeds: the feeds in the order of adddata
    loopkind,       \* the loop that runs over them
    processed,      \* per iteration, the feeds that delivered, as processed
    sigparams,      \* the signals and the parameters of a SignalStrategy
    _sentinel,      \* SignalStrategy._sentinel: an order it issued, or None
    sigorders,      \* the orders the signal strategy issued
    sigposition,    \* the size of the position on the strategy's target feed
    cheat_on_open,  \* Cerebro.params.cheat_on_open
    iterpc,         \* where the loop stands within its iteration
    iteridx,        \* the strategy whose turn it is in a loop over them
    iterbar,        \* the iterations that delivered a bar
    iterlog,        \* what the current iteration has run, in order
    iterorders,     \* the orders issued: hook, bar, and bar of evaluation
    lfeeds,         \* the feeds of a run, as the loops have sorted them
    lpos,           \* per loop and feed: the bars the feed has delivered
    lpc,            \* per loop: not entered, looping, ended, or raised
    lsteps,         \* per loop: what each of its iterations did, in order
    fill_price,     \* CalendarDays.params.fill_price
    lastdt,         \* CalendarDays.lastdt
    cdinputs,       \* the bars the feed has handed to the filter
    cdstream,       \* the bars the feed delivers after the filter
    cdexc,          \* the exception the filter raised ("none" if none)
    qnotifs,        \* OandaBroker.notifs while a store thread appends to it
    qpc,            \* where the engine stands in its drain of the queue
    qpending,       \* Strategy._orderspending
    qdelivered,     \* the orders notify_order was called with, in order
    qappended       \* every notification appended to the queue, in order

engine == <<bars, flen, runmode, sdatetime, dlens, running>>

lifecycle == <<runpc, _event_stop, started, stopped, snexts, stratidx,
               ndelivered>>

callbacks == <<scalls, icalls>>

rsmp == <<rparams, rbar, compcount, rinputs, rstack, rlast, lastret,
          _firstbar, rstash>>

trailing == <<torder, tlog>>

trading == <<tposition, _trades, _trades_pending, nfills>>

moding == <<runcfg, _dorunonce, _dopreload, indicators, looprun>>

ordering == <<datafeeds, loopkind, processed>>

signalling == <<sigparams, _sentinel, sigorders, sigposition>>

iterating == <<cheat_on_open, iterpc, iteridx, iterbar, iterlog, iterorders>>

looping == <<lfeeds, lpos, lpc, lsteps>>

calendar == <<fill_price, lastdt, cdinputs, cdstream, cdexc>>

queueing == <<qnotifs, qpc, qpending, qdelivered, qappended>>

further == <<looping, calendar, queueing>>

others == <<trailing, trading, moding, ordering, signalling, iterating,
           further>>

vars == <<nord, ordobj, orders, opending, brackets, notifs, positions, sent,
          now, exc, nevents, statuslog, orderspending, notified, engine,
          lifecycle, callbacks, rsmp, others>>

TradeIds == {0, 1}

\* a signal strategy that was not started yet
NoSignals == [signals |-> {}, _accumulate |-> FALSE, _concurrent |-> FALSE,
              started |-> FALSE]

\* Cerebro.run was not called yet
NoRun == [preload |-> FALSE, runonce |-> FALSE, exactbars |-> 0,
          live |-> FALSE, _do_live |-> FALSE, _do_replay |-> FALSE,
          called |-> FALSE]

\* ------------------------------------------------------------------ order.py

\* no trailing order was created yet
NoTrail ==
    [isbuy |-> FALSE, exectype |-> "Market", price |-> None,
     pricelimit |-> None, trailamount |-> None, trailpercent |-> None,
     created |-> [price |-> 0, pricelimit |-> 0], _limitoffset |-> 0]

\* OrderBase.__init__ : a new order object
\* a feed without a resampler
NoResampler == [compression |-> 1, bar2edge |-> FALSE, adjbartime |-> FALSE,
                rightedge |-> FALSE, takelate |-> FALSE, replaying |-> FALSE,
                start |-> None]

\* _Bar.bstart: the closed aggregate; members are the timestamps of the inputs
\* an aggregate was built from, nudge counts the 0.000001 added to datetime
bstart == [isopen |-> FALSE, open |-> 0, high |-> 0, low |-> 0, close |-> 0,
           volume |-> 0, datetime |-> 0, nudge |-> 0, members |-> <<>>]

\* the values the valid parameter of an order takes: None, a datetime, a
\* timedelta (the empty one is Order.DAY) or a number
NoValid == [kind |-> "None", n |-> None]
GoodTill(t) == [kind |-> "datetime", n |-> t]
Delta(n) == [kind |-> "timedelta", n |-> n]
Numeric(n) == [kind |-> "number", n |-> n]
DAY == Delta(0)

\* 23:59:59 of the day of timestamp dt, days being DayLen timestamps long
EndOfDay(dt) == (dt \div DayLen) * DayLen + (DayLen - 1)

\* self.valid as OrderBase.__init__ leaves it: a datetime is converted, a
\* timedelta is resolved against the bar of creation, a number stays as it
\* was given (the deadline computed for it is dropped); None and the number 0
\* are both 0 here, Order.expire tells them apart no more than this
Validity(v, dt) ==
    IF v.kind = "None" THEN None
    ELSE IF v.kind = "datetime" THEN v.n
    ELSE IF v.kind = "timedelta"
         THEN IF v = DAY THEN EndOfDay(dt) ELSE dt + v.n
    ELSE v.n

NewOrder(isbuy, exectype, valid, parent, transmit) ==
    [parent |-> parent, transmit |-> transmit, isbuy |-> isbuy,
     exectype |-> exectype, pvalid |-> valid, valid |-> Validity(valid, now),
     created |-> now,
     size |-> IF isbuy THEN OrderSize ELSE -OrderSize,
     status |-> "Created", active |-> (parent = None),
     exsize |-> 0, remsize |-> IF isbuy THEN OrderSize ELSE -OrderSize,
     exbits |-> <<>>, p1 |-> 0, p2 |-> 0, exdt |-> None]

alive(o) == o.status \in {"Created", "Submitted", "Partial", "Accepted"}

\* The broker state the handlers thread through their calls.
BState == [o |-> ordobj, br |-> brackets, nq |-> notifs, pos |-> positions,
           sl |-> statuslog, exc |-> "none"]

setstatus(bs, r, s) ==
    [bs EXCEPT !.o[r].status = s, !.sl[r] = Append(@, s)]

submit(bs, r) == setstatus(bs, r, "Submitted")

accept(bs, r) == setstatus(bs, r, "Accepted")

reject(bs, r) ==
    IF bs.o[r].status = "Rejected" THEN bs
    ELSE [setstatus(bs, r, "Rejected") EXCEPT !.o[r].exdt = now]

cancel(bs, r) == [setstatus(bs, r, "Canceled") EXCEPT !.o[r].exdt = now]

completed(bs, r) == setstatus(bs, r, "Completed")

partial(bs, r) == setstatus(bs, r, "Partial")

\* an order expires on the bar of its deadline already
ExpireAtDeadline(bs, r) ==
    IF bs.o[r].exectype = "Market" THEN bs
    ELSE IF bs.o[r].valid # None /\ now >= bs.o[r].valid
         THEN [setstatus(bs, r, "Expired") EXCEPT !.o[r].exdt = now]
         ELSE bs

expire(bs, r) ==
    IF bs.o[r].exectype = "Market" THEN bs
    ELSE IF bs.o[r].valid # None /\ now > bs.o[r].valid
         THEN [setstatus(bs, r, "Expired") EXCEPT !.o[r].exdt = now]
         ELSE bs

activate(bs, r) == [bs EXCEPT !.o[r].active = TRUE]

\* an addbit that adds the bit's size to the executed size twice
AddBitTwice(bs, r, size) ==
    [bs EXCEPT !.o[r].exbits = Append(@, size),
               !.o[r].remsize = @ - size,
               !.o[r].exdt = now,
               !.o[r].exsize = @ + size + size]

\* OrderData.addbit up to the division by the new executed size
addbit(bs, r, size) ==
    [bs EXCEPT !.o[r].exbits = Append(@, size),
               !.o[r].remsize = @ - size,
               !.o[r].exdt = now,
               !.o[r].exsize = @ + size,
               !.exc = IF bs.o[r].exsize + size = 0
                       THEN "ZeroDivisionError" ELSE bs.exc]

\* Order.execute: OrderBase.execute, then the status from what remains
execute(bs, r, size) ==
    LET b1 == IF size = 0 THEN bs ELSE addbit(bs, r, size)
    IN IF b1.exc # "none" THEN b1
       ELSE IF b1.o[r].remsize # 0 THEN setstatus(b1, r, "Partial")
            ELSE setstatus(b1, r, "Completed")

\* a markpending that never moves the start of the pending bits
MarkPendingFromStart(o) == [o EXCEPT !.p2 = Len(o.exbits)]

\* OrderData.markpending
markpending(o) == [o EXCEPT !.p1 = o.p2, !.p2 = Len(o.exbits)]

\* OrderBase.clone: what a notification shows of the order
clone(r, o) ==
    [ref |-> r, status |-> o.status, exsize |-> o.exsize,
     p1 |-> o.p1, p2 |-> o.p2]

\* ------------------------------------------------------------ oandabroker.py

\* a notify that puts the clone at the head of the queue
NotifyAtHead(bs, r) ==
    LET o1 == markpending(bs.o[r])
    IN [bs EXCEPT !.o[r] = o1, !.nq = <<clone(r, o1)>> \o @]

notify(bs, r) ==
    LET o1 == markpending(bs.o[r])
    IN [bs EXCEPT !.o[r] = o1, !.nq = Append(@, clone(r, o1))]

pref(bs, r) == IF bs.o[r].parent = None THEN r ELSE bs.o[r].parent

_bracketnotif(bs, r) ==
    LET br == bs.br[pref(bs, r)]
    IN IF br = <<>> THEN <<>> ELSE SubSeq(br, Len(br) - 1, Len(br))

RECURSIVE _bracketize(_, _, _)
RECURSIVE _cancel(_, _)
RECURSIVE CancelAlive(_, _, _)

_cancel(bs, r) == _bracketize(notify(cancel(bs, r), r), r, TRUE)

\* the loop of _bracketize's cancel branch, from member i on
CancelAlive(bs, br, i) ==
    IF i > Len(br) THEN bs
    ELSE CancelAlive(IF alive(bs.o[br[i]]) THEN _cancel(bs, br[i]) ELSE bs,
                     br, i + 1)

_bracketize(bs, r, docancel) ==
    LET p == pref(bs, r)
        br == bs.br[p]
        b0 == [bs EXCEPT !.br[p] = <<>>]
    IN IF br = <<>> THEN bs
       ELSE IF ~docancel
            THEN IF Len(br) = 3
                 THEN [activate(activate(b0, br[2]), br[3])
                          EXCEPT !.br[p] = <<br[2], br[3]>>]
                 ELSE IF r = br[1] THEN _cancel(b0, br[2])
                      ELSE IF r = br[2] THEN _cancel(b0, br[1])
                           ELSE [b0 EXCEPT !.exc = "ValueError: index"]
            ELSE CancelAlive(b0, br, 1)

_submit(bs, r) ==
    LET b1 == notify(submit(bs, r), r)
        kids == _bracketnotif(b1, r)
    IN IF kids = <<>> THEN b1
       ELSE notify(submit(notify(submit(b1, kids[1]), kids[1]), kids[2]),
                   kids[2])

_accept(bs, r) ==
    LET b1 == notify(accept(bs, r), r)
        kids == _bracketnotif(b1, r)
    IN IF kids = <<>> THEN b1
       ELSE notify(accept(notify(accept(b1, kids[1]), kids[1]), kids[2]),
                   kids[2])

_reject(bs, r) == _bracketize(notify(reject(bs, r), r), r, TRUE)

_expire(bs, r) == _bracketize(notify(expire(bs, r), r), r, TRUE)

\* _fill from "datafeed = order.datafeed" on, for the order it settled on
FillOrder(bs, r, size) ==
    LET b1 == execute([bs EXCEPT !.pos = @ + size], r, size)
    IN IF b1.exc # "none" THEN b1
       ELSE IF b1.o[r].remsize # 0
            THEN notify(partial(b1, r), r)
            ELSE _bracketize(notify(completed(b1, r), r), r, FALSE)

_fill(bs, r, size, ttype) ==
    LET br == bs.br[pref(bs, r)]
    IN IF alive(bs.o[r]) THEN FillOrder(bs, r, size)
       ELSE IF br = <<>> THEN [bs EXCEPT !.exc = "AttributeError"]
            ELSE IF ttype = "STOP_LOSS_FILLED"
                 THEN FillOrder(bs, br[Len(br) - 1], size)
                 ELSE IF ttype = "TAKE_PROFIT_FILLED"
                      THEN FillOrder(bs, br[Len(br)], size)
                      ELSE [bs EXCEPT !.exc = "AttributeError"]

\* ------------------------------------------------------------------ actions

\* the broker and the strategy after construction
InitBroker ==
    /\ nord = 0
    /\ ordobj = <<>>
    /\ orders = {}
    /\ opending = [r \in Refs |-> <<>>]
    /\ brackets = [r \in Refs |-> <<>>]
    /\ notifs = <<>>
    /\ positions = 0
    /\ sent = <<>>
    /\ now = 1
    /\ exc = "none"
    /\ nevents = 0
    /\ statuslog = [r \in Refs |-> <<>>]
    /\ orderspending = <<>>
    /\ notified = <<>>

\* the engine before its loop starts, over the feeds b in run mode m
InitEngine(b, m) ==
    /\ bars = b
    /\ flen = [d \in Feeds |-> 0]
    /\ runmode = m
    /\ sdatetime = <<>>
    /\ dlens = [d \in Feeds |-> 0]
    /\ running = TRUE
    /\ runpc = "start"
    /\ _event_stop = FALSE
    /\ started = {}
    /\ stopped = {}
    /\ snexts = [s \in Range(Strats) |-> 0]
    /\ stratidx = 1
    /\ ndelivered = 0
    /\ scalls = <<>>
    /\ icalls = <<>>
    /\ rparams = NoResampler
    /\ rbar = bstart
    /\ compcount = 0
    /\ rinputs = <<>>
    /\ rstack = <<>>
    /\ rlast = FALSE
    /\ lastret = <<>>
    /\ _firstbar = TRUE
    /\ rstash = <<>>
    /\ torder = NoTrail
    /\ tlog = <<>>
    /\ tposition = 0
    /\ _trades = [tid \in TradeIds |-> <<>>]
    /\ _trades_pending = <<>>
    /\ nfills = 0
    /\ runcfg = NoRun
    /\ _dorunonce = FALSE
    /\ _dopreload = FALSE
    /\ indicators = <<>>
    /\ looprun = "none"
    /\ datafeeds = <<>>
    /\ loopkind = "none"
    /\ processed = <<>>
    /\ sigparams = NoSignals
    /\ _sentinel = None
    /\ sigorders = <<>>
    /\ sigposition = 0
    /\ cheat_on_open = FALSE
    /\ iterpc = "idle"
    /\ iteridx = 1
    /\ iterbar = 0
    /\ iterlog = <<>>
    /\ iterorders = <<>>
    /\ lfeeds = <<>>
    /\ lpos = [lm \in LoopModes |-> <<>>]
    /\ lpc = [lm \in LoopModes |-> "idle"]
    /\ lsteps = [lm \in LoopModes |-> <<>>]
    /\ fill_price = NoFillPrice
    /\ lastdt = None
    /\ cdinputs = <<>>
    /\ cdstream = <<>>
    /\ cdexc = "none"
    /\ qnotifs = <<>>
    /\ qpc = "idle"
    /\ qpending = <<>>
    /\ qdelivered = <<>>
    /\ qappended = <<>>

\* a run whose feeds are seen through the orders' clock only
Init == InitBroker /\ InitEngine([d \in Feeds |-> <<>>], "next")

\* a broker that hands every order to the store at once
TransmitAtOnce(r, parent, transmit) ==
    /\ orders' = orders \cup {r}
    /\ sent' = Append(sent, <<r>>)
    /\ exc' = "none"
    /\ UNCHANGED <<opending, brackets>>

\* OandaBroker._transmit for the new order r
_transmit(r, parent, transmit) ==
    LET p == IF parent = None THEN r ELSE parent
        held == opending[p]
    IN IF transmit
       THEN IF r # p
            THEN IF held = <<>>
                 THEN /\ exc' = "KeyError: pop"
                      /\ UNCHANGED <<orders, opending, brackets, sent>>
                 ELSE /\ opending' = [opending EXCEPT ![p] = <<>>]
                      /\ IF Len(held) = BracketSize - 1
                         THEN /\ orders' = orders \cup {held[1], held[2], r}
                              /\ brackets' = [brackets EXCEPT ![p] = <<held[1], held[2], r>>]
                              /\ sent' = Append(sent, <<held[1], held[2], r>>)
                              /\ exc' = "none"
                         ELSE /\ exc' = "ValueError: unpack"
                              /\ UNCHANGED <<orders, brackets, sent>>
            ELSE /\ orders' = orders \cup {r}
                 /\ sent' = Append(sent, <<r>>)
                 /\ exc' = "none"
                 /\ UNCHANGED <<opending, brackets>>
       ELSE /\ opending' = [opending EXCEPT ![p] = Append(@, r)]
            /\ exc' = "none"
            /\ UNCHANGED <<orders, brackets, sent>>

\* Strategy.buy / Strategy.sell -> OandaBroker.buy / sell -> _transmit
CreateOrder(isbuy, exectype, valid, parent, transmit) ==
    /\ parent \in {None} \cup (1..nord)
    /\ nord' = nord + 1
    /\ ordobj' = Append(ordobj, NewOrder(isbuy, exectype, valid, parent, transmit))
    /\ statuslog' = [statuslog EXCEPT ![nord + 1] = <<"Created">>]
    /\ _transmit(nord + 1, parent, transmit)
    /\ UNCHANGED <<notifs, positions, now, nevents, orderspending, notified,
                   engine, lifecycle, callbacks, rsmp, others>>

buy(exectype, valid, parent, transmit) ==
    CreateOrder(TRUE, exectype, valid, parent, transmit)

sell(exectype, valid, parent, transmit) ==
    CreateOrder(FALSE, exectype, valid, parent, transmit)

\* the broker state a handler left behind becomes the new state
Commit(bs) ==
    /\ ordobj' = bs.o
    /\ brackets' = bs.br
    /\ notifs' = bs.nq
    /\ positions' = bs.pos
    /\ statuslog' = bs.sl
    /\ exc' = bs.exc
    /\ nevents' = nevents + 1
    /\ UNCHANGED <<nord, orders, opending, sent, now, orderspending, notified,
                   engine, lifecycle, callbacks, rsmp, others>>

\* the store thread calls back into the broker for an order it was handed
StoreSubmit(r) == r \in orders /\ Commit(_submit(BState, r))

StoreAccept(r) == r \in orders /\ Commit(_accept(BState, r))

StoreReject(r) == r \in orders /\ Commit(_reject(BState, r))

StoreCancel(r) == r \in orders /\ Commit(_cancel(BState, r))

StoreExpire(r) == r \in orders /\ Commit(_expire(BState, r))

StoreFill(r, size, ttype) == r \in orders /\ Commit(_fill(BState, r, size, ttype))

StoreEvent ==
    \E r \in Refs :
        \/ StoreSubmit(r)
        \/ StoreAccept(r)
        \/ StoreReject(r)
        \/ StoreCancel(r)
        \/ StoreExpire(r)
        \/ \E size \in FillSizes, ttype \in TTypes : StoreFill(r, size, ttype)

\* a get_notification that leaves the head in the queue
PeekNotification(q) ==
    IF q = <<>> THEN <<Marker, q>> ELSE <<Head(q), q>>

\* OandaBroker.get_notification: the head of the queue and what is left
get_notification(q) ==
    IF q = <<>> THEN <<Marker, q>> ELSE <<Head(q), Tail(q)>>

\* Strategy._add_notification (quicknotify off): the order joins the pending
_add_notification(pend, order) == Append(pend, order)

\* the loop of Cerebro._broker_or_echange_notification over queue q
RECURSIVE DrainLoop(_, _)
DrainLoop(q, pend) ==
    LET got == get_notification(q)
    IN IF got[1] = Marker THEN [nq |-> got[2], op |-> pend]
       ELSE DrainLoop(got[2], _add_notification(pend, got[1]))

\* Cerebro._broker_or_echange_notification: broker.next() marks the boundary
_broker_or_echange_notification == DrainLoop(Append(notifs, Marker), orderspending)

\* Cerebro._runnext asks the feeds for their next bar: the orders' feed
\* delivers one
DataNext ==
    /\ now' = now + 1
    /\ UNCHANGED <<nord, ordobj, orders, opending, brackets, notifs, positions,
                   sent, exc, nevents, statuslog, orderspending, notified,
                   engine, lifecycle, callbacks, rsmp, others>>

\* Cerebro._runnext drains the broker's notifications into the strategy
BrokerNotification ==
    LET d == _broker_or_echange_notification
    IN /\ notifs' = d.nq
       /\ orderspending' = d.op
       /\ UNCHANGED <<nord, ordobj, orders, opending, brackets, positions, sent,
                      now, exc, nevents, statuslog, notified, engine,
                      lifecycle, callbacks, rsmp, others>>

\* Strategy._next: _notify delivers the pending orders, clear() drops them
StrategyNext ==
    /\ notified' = notified \o orderspending
    /\ orderspending' = <<>>
    /\ UNCHANGED <<nord, ordobj, orders, opending, brackets, notifs, positions,
                   sent, now, exc, nevents, statuslog, engine, lifecycle, callbacks, rsmp, others>>

\* the orders the sample strategy creates (St.next): a plain market buy, and
\* the raw bracket of a limit entry, a stop side and a limit side
StrategyOrder ==
    \/ buy("Market", NoValid, None, TRUE)
    \/ \E t \in BOOLEAN : buy("Limit", GoodTill(ValidAt), None, t)
    \/ \E p \in Refs, t \in BOOLEAN : sell("Stop", NoValid, p, t)
    \/ \E p \in Refs, t \in BOOLEAN : sell("Limit", NoValid, p, t)

\* an exception raised into Strategy.buy / sell ends the run
Running == exc \notin {"KeyError: pop", "ValueError: unpack"}

\* the strategy places its orders on the first bar, the store answers at any
\* time, and the feed moves on once the orders are placed
Next ==
    \/ Running /\ nord < MaxOrders /\ StrategyOrder
    \/ Running /\ nevents < MaxEvents /\ StoreEvent
    \/ Running /\ now < MaxTime /\ nord = MaxOrders /\ DataNext

Spec == Init /\ [][Next]_vars

\* the order calls alone, with any parent and any transmit flag
AnyOrder ==
    \E p \in {None} \cup Refs, t \in BOOLEAN :
        \/ buy("Market", NoValid, p, t)
        \/ buy("Limit", GoodTill(ValidAt), p, t)
        \/ sell("Stop", NoValid, p, t)
        \/ sell("Limit", NoValid, p, t)

NextTransmit == Running /\ nord < MaxOrders /\ AnyOrder

SpecTransmit == Init /\ [][NextTransmit]_vars

\* the sample strategy's market order, the store's events for it, and the
\* engine's notification path to the strategy
NextNotify ==
    \/ nord = 0 /\ buy("Market", NoValid, None, TRUE)
    \/ nevents < MaxNotifyEvents /\ StoreEvent
    \/ notifs # <<>> /\ BrokerNotification
    \/ orderspending # <<>> /\ StrategyNext

SpecNotify == Init /\ [][NextNotify]_vars

\* the valid parameters a strategy passes
ValidInputs == {NoValid, DAY, Delta(1), GoodTill(ValidAt), Numeric(0),
                Numeric(ValidAt)}

\* one order of any validity, the store's events for it, and the bars going by
NextExpire ==
    \/ /\ nord = 0
       /\ \E e \in {"Market", "Limit", "Stop"}, v \in ValidInputs :
              buy(e, v, None, TRUE)
    \/ nevents < MaxEvents /\ StoreEvent
    \/ now < MaxTime /\ DataNext

SpecExpire == Init /\ [][NextExpire]_vars

\* ------------------------------------------------------- cerebro.py, feeds

Min(S) == CHOOSE x \in S : \A y \in S : x <= y

Max(S) == CHOOSE x \in S : \A y \in S : x >= y

\* the bars a feed may hold: timestamps that never decrease
BarSeqs ==
    {b \in UNION {[1..n -> Stamps] : n \in 0..MaxBars} :
        \A i \in 1..(Len(b) - 1) : b[i] <= b[i + 1]}

\* feed.next(): TRUE and one bar further, FALSE when no bar is left
FeedNext(fl, d) == fl[d] < Len(bars[d])

\* feed.datetime[0] at length n
FeedDatetime(d, n) == bars[d][n]

\* feed.advance_peek(): the timestamp of the next bar, inf when there is none
advance_peek(d) ==
    IF flen[d] < Len(bars[d]) THEN FeedDatetime(d, flen[d] + 1) ELSE Inf

\* a loop that never rewinds a feed
RewindNever(dti, dt0) == FALSE

\* a loop that rewinds every feed that delivered
RewindAlways(dti, dt0) == TRUE

\* _runnext: a feed that delivered a bar later than dt0 is rewound
MustRewind(dti, dt0) == dti > dt0

\* _run_once: a feed whose next bar is not later than dt0 advances
Advances(dti, dt0) == dti <= dt0

\* a clock that writes the timestamp only when feed A has grown
ClkUpdateFirstFeed(fl) ==
    [dt |-> IF fl["A"] > dlens["A"]
            THEN Append(sdatetime, FeedDatetime("A", fl["A"]))
            ELSE Append(sdatetime, None),
     dlens |-> fl]

\* Strategy._clk_update with the feeds at lengths fl
_clk_update(fl) ==
    LET line == IF \E d \in Feeds : fl[d] > dlens[d]
                THEN Append(sdatetime, None) ELSE sdatetime
        dt == Max({FeedDatetime(d, fl[d]) : d \in {e \in Feeds : fl[e] > 0}})
    IN [dt |-> [line EXCEPT ![Len(line)] = dt], dlens |-> fl]

\* Strategy._min_periods: an indicator of period MinPeriod runs on feed B,
\* feed A has the period of a bare feed
_min_periods == [d \in Feeds |-> IF d = "B" THEN MinPeriod ELSE 1]

_get_min_per_status(fl) == Max({_min_periods[d] - fl[d] : d \in Feeds})

\* the callback Strategy._next and Strategy._oncepost choose
StrategyCall(fl) ==
    LET min_per_status == _get_min_per_status(fl)
    IN IF min_per_status < 0 THEN "next"
       ELSE IF min_per_status = 0 THEN "nextstart"
       ELSE "prenext"

\* the callback LineIterator._next chooses for the indicator, if any
IndicatorCall(clock_len) ==
    IF clock_len > MinPeriod THEN <<"next">>
    ELSE IF clock_len = MinPeriod THEN <<"nextstart">>
    ELSE IF clock_len # 0 THEN <<"prenext">>
    ELSE <<>>

\* Strategy._oncepost(dt): forward, then the timestamp of the step
_oncepost(dt) == Append(sdatetime, dt)

\* one turn of the loop of Cerebro._runnext
RunNextIteration ==
    LET rets == {d \in Feeds : FeedNext(flen, d)}
        fl1 == [d \in Feeds |-> IF d \in rets THEN flen[d] + 1 ELSE flen[d]]
        dts == [d \in Feeds |->
                   IF d \in rets THEN FeedDatetime(d, fl1[d]) ELSE None]
        dt0 == Min({dts[d] : d \in rets})
        fl2 == [d \in Feeds |->
                   IF dts[d] # None /\ MustRewind(dts[d], dt0)
                   THEN fl1[d] - 1 ELSE fl1[d]]
        drained == _broker_or_echange_notification
    IN /\ runmode = "next"
       /\ running
       /\ IF rets # {}
          THEN /\ flen' = fl2
               /\ sdatetime' = _clk_update(fl2).dt
               /\ dlens' = _clk_update(fl2).dlens
               /\ icalls' = icalls \o IndicatorCall(fl2["B"])
               /\ scalls' = Append(scalls, StrategyCall(fl2))
               /\ notifs' = drained.nq
               /\ notified' = notified \o drained.op
               /\ orderspending' = <<>>
               /\ UNCHANGED running
          ELSE /\ running' = FALSE
               /\ UNCHANGED <<flen, sdatetime, dlens, notifs, notified,
                              orderspending, callbacks>>
       /\ UNCHANGED <<nord, ordobj, orders, opending, brackets, positions, sent,
                      now, exc, nevents, statuslog, bars, runmode, lifecycle, rsmp, others>>

\* one turn of the loop of Cerebro._run_once
RunOnceIteration ==
    LET dts == [d \in Feeds |-> advance_peek(d)]
        dt0 == Min({dts[d] : d \in Feeds})
        drained == _broker_or_echange_notification
    IN /\ runmode = "once"
       /\ running
       /\ IF dt0 # Inf
          THEN /\ flen' = [d \in Feeds |->
                             IF Advances(dts[d], dt0) THEN flen[d] + 1
                             ELSE flen[d]]
               /\ sdatetime' = _oncepost(dt0)
               /\ scalls' = Append(scalls, StrategyCall(flen'))
               /\ UNCHANGED icalls
               /\ notifs' = drained.nq
               /\ notified' = notified \o drained.op
               /\ orderspending' = <<>>
               /\ UNCHANGED running
          ELSE /\ running' = FALSE
               /\ UNCHANGED <<flen, sdatetime, notifs, notified, orderspending,
                              callbacks>>
       /\ UNCHANGED <<nord, ordobj, orders, opending, brackets, positions, sent,
                      now, exc, nevents, statuslog, bars, runmode, dlens,
                      lifecycle, rsmp, others>>

\* a run over any two feeds, in either run mode
InitFeeds ==
    /\ InitBroker
    /\ \E b \in [Feeds -> BarSeqs], m \in {"next", "once"} : InitEngine(b, m)

NextFeeds == RunNextIteration \/ RunOnceIteration

SpecFeeds == InitFeeds /\ [][NextFeeds]_vars

\* ---- Cerebro.run_strategies, one check of the stop flag at a time
\* (backtrader/cerebro.py); the lines of the first strategy are followed,
\* the other strategies are counted

\* Cerebro.stop_running, called from a callback or from another thread
stop_running ==
    /\ runpc \in {"top", "feeds", "broker", "strat"}
    /\ ~_event_stop
    /\ _event_stop' = TRUE
    /\ UNCHANGED <<nord, ordobj, orders, opending, brackets, notifs, positions,
                   sent, now, exc, nevents, statuslog, orderspending, notified,
                   engine, runpc, started, stopped, snexts, stratidx,
                   ndelivered, callbacks, rsmp, others>>

\* the flag is never seen
StopNeverSeen == FALSE

\* "if self._event_stop: return", wherever the loop has it
StopSeen == _event_stop

\* run() clears the flag; run_strategies starts the feeds and the strategies
RunStart ==
    /\ runpc = "start"
    /\ runmode = "next"
    /\ _event_stop' = FALSE
    /\ started' = Feeds
    /\ runpc' = "top"
    /\ UNCHANGED <<nord, ordobj, orders, opending, brackets, notifs, positions,
                   sent, now, exc, nevents, statuslog, orderspending, notified,
                   engine, stopped, snexts, stratidx, ndelivered, callbacks, rsmp, others>>

\* top of a turn of _runnext: store and feed notifications, each followed by
\* a look at the flag
LoopTop ==
    /\ runpc = "top"
    /\ runpc' = IF StopSeen THEN "stopping" ELSE "feeds"
    /\ UNCHANGED <<nord, ordobj, orders, opending, brackets, notifs, positions,
                   sent, now, exc, nevents, statuslog, orderspending, notified,
                   engine, _event_stop, started, stopped, snexts, stratidx,
                   ndelivered, callbacks, rsmp, others>>

\* the feeds' next, dt0 and the rewinds; with no feed delivering the loop
\* breaks and _runnext returns after its last notifications
FeedsPhase ==
    LET rets == {d \in Feeds : FeedNext(flen, d)}
        fl1 == [d \in Feeds |-> IF d \in rets THEN flen[d] + 1 ELSE flen[d]]
        dts == [d \in Feeds |->
                   IF d \in rets THEN FeedDatetime(d, fl1[d]) ELSE None]
        dt0 == Min({dts[d] : d \in rets})
        fl2 == [d \in Feeds |->
                   IF dts[d] # None /\ MustRewind(dts[d], dt0)
                   THEN fl1[d] - 1 ELSE fl1[d]]
    IN /\ runpc = "feeds"
       /\ IF rets # {}
          THEN /\ flen' = fl2
               /\ ndelivered' = ndelivered + 1
               /\ runpc' = "broker"
               /\ UNCHANGED running
          ELSE /\ running' = FALSE
               /\ runpc' = "stopping"
               /\ UNCHANGED <<flen, ndelivered>>
       /\ UNCHANGED <<nord, ordobj, orders, opending, brackets, notifs,
                      positions, sent, now, exc, nevents, statuslog,
                      orderspending, notified, bars, runmode, sdatetime, dlens,
                      _event_stop, started, stopped, snexts, stratidx,
                      callbacks, rsmp, others>>

\* the look at the flag after the feeds' notifications, then the broker's
\* notifications
BrokerPhase ==
    LET drained == _broker_or_echange_notification
    IN /\ runpc = "broker"
       /\ IF StopSeen
          THEN /\ runpc' = "stopping"
               /\ UNCHANGED <<notifs, orderspending, stratidx>>
          ELSE /\ notifs' = drained.nq
               /\ orderspending' = orderspending \o drained.op
               /\ stratidx' = 1
               /\ runpc' = "strat"
       /\ UNCHANGED <<nord, ordobj, orders, opending, brackets, positions, sent,
                      now, exc, nevents, statuslog, notified, engine,
                      _event_stop, started, stopped, snexts, ndelivered,
                      callbacks, rsmp, others>>

\* the look at the flag that precedes a strategy's turn (after the broker's
\* notifications or after the strategy before it), then strat._next; raises
\* says whether the user's callback raises
StrategyPhase(raises) ==
    LET s == Strats[stratidx]
        first == stratidx = 1
    IN /\ runpc = "strat"
       /\ IF StopSeen
          THEN /\ runpc' = "stopping"
               /\ UNCHANGED <<sdatetime, dlens, notified, orderspending,
                              snexts, stratidx, callbacks>>
          ELSE IF raises
          THEN /\ runpc' = "raised"
               /\ UNCHANGED <<sdatetime, dlens, notified, orderspending,
                              snexts, stratidx, callbacks>>
          ELSE /\ snexts' = [snexts EXCEPT ![s] = @ + 1]
               /\ sdatetime' = IF first THEN _clk_update(flen).dt
                                ELSE sdatetime
               /\ dlens' = IF first THEN _clk_update(flen).dlens ELSE dlens
               /\ notified' = IF first THEN notified \o orderspending
                               ELSE notified
               /\ orderspending' = IF first THEN <<>> ELSE orderspending
               /\ icalls' = IF first THEN icalls \o IndicatorCall(flen["B"])
                             ELSE icalls
               /\ scalls' = IF first THEN Append(scalls, StrategyCall(flen))
                             ELSE scalls
               /\ IF stratidx < Len(Strats)
                  THEN /\ stratidx' = stratidx + 1
                       /\ UNCHANGED runpc
                  ELSE /\ runpc' = "top"
                       /\ UNCHANGED stratidx
       /\ UNCHANGED <<nord, ordobj, orders, opending, brackets, notifs,
                      positions, sent, now, exc, nevents, statuslog, bars, flen,
                      runmode, running, _event_stop, started, stopped,
                      ndelivered, rsmp, others>>

\* after the loop has returned: the strategies' _stop, then the feeds' stop
RunStop ==
    /\ runpc = "stopping"
    /\ stopped' = Range(Strats)
    /\ started' = {}
    /\ runpc' = "done"
    /\ UNCHANGED <<nord, ordobj, orders, opending, brackets, notifs, positions,
                   sent, now, exc, nevents, statuslog, orderspending, notified,
                   engine, _event_stop, snexts, stratidx, ndelivered, callbacks, rsmp, others>>

\* a run over two feeds with the same bars and two strategies
InitRun ==
    /\ InitBroker
    /\ \E q \in BarSeqs : InitEngine([d \in Feeds |-> q], "next")

\* a callback of a strategy places a market order while the strategies have
\* their turn, and the store answers once
NextRun ==
    \/ RunStart
    \/ runpc = "strat" /\ nord = 0 /\ buy("Market", NoValid, None, TRUE)
    \/ runpc \notin {"done", "raised"} /\ nevents = 0 /\ StoreEvent
    \/ stop_running
    \/ LoopTop
    \/ FeedsPhase
    \/ BrokerPhase
    \/ \E raises \in BOOLEAN : StrategyPhase(raises)
    \/ RunStop

SpecRun == InitRun /\ [][NextRun]_vars

\* ---- Resampler of 1-minute bars to Minutes x compression
\* (backtrader/resamplerfilter.py); timestamps are minutes of the day, the
\* session does not end within the bars looked at

T0930 == 9 * 60 + 30

\* a 1-minute bar of the feed: its prices and volume follow from p
InputBar(dt, p) ==
    [datetime |-> dt, open |-> p, high |-> p + 1, low |-> p - 1,
     close |-> Max(Prices) + 1 - p, volume |-> p]

\* _Bar.bupdate: the aggregate takes one more input
bupdate(b, in) ==
    IF b.isopen
    THEN [b EXCEPT !.high = Max({b.high, in.high}),
                   !.low = Min({b.low, in.low}),
                   !.close = in.close,
                   !.volume = b.volume + in.volume,
                   !.datetime = in.datetime,
                   !.nudge = 0,
                   !.members = Append(b.members, in.datetime)]
    ELSE [isopen |-> TRUE, open |-> in.open, high |-> in.high, low |-> in.low,
          close |-> in.close, volume |-> in.volume, datetime |-> in.datetime,
          nudge |-> 0, members |-> <<in.datetime>>]

\* _Bar.lvalues: what is delivered
lvalues(b) == [datetime |-> b.datetime, nudge |-> b.nudge, open |-> b.open,
               high |-> b.high, low |-> b.low, close |-> b.close,
               volume |-> b.volume, members |-> b.members]

\* hour * 60 + minute of a timestamp
_gettmpoint(dt) == dt

\* the new bar is not later than the last bar the feed delivered
_latedata(dt) == Len(rstack) > 0 /\ dt <= rstack[Len(rstack)].datetime

\* no input counts as being on a boundary
NeverOnEdge(dt) == FALSE

\* _dataonedge: the input is on a boundary of the compressed timeframe,
\* whether or not bar2edge is set
_dataonedge(dt) == _gettmpoint(dt) % rparams.compression = 0

\* a closed aggregate has the greatest timestamp there is (bstart(maxdate))
_barover_subdays(dt) ==
    LET point == _gettmpoint(rbar.datetime)
        barpoint == _gettmpoint(dt)
    IN IF \/ ~rbar.isopen
          \/ dt < rbar.datetime
          \/ dt = rbar.datetime /\ rbar.nudge > 0
       THEN FALSE
       ELSE IF barpoint > point
       THEN IF ~rparams.bar2edge THEN TRUE
            ELSE IF rparams.compression = 1 THEN TRUE
            ELSE barpoint \div rparams.compression
                     > point \div rparams.compression
       ELSE FALSE

\* _checkbarover: whether the aggregate is over, and compcount after the call
_checkbarover(dt) ==
    IF ~_barover_subdays(dt) THEN [isover |-> FALSE, compcount |-> compcount]
    ELSE IF rparams.bar2edge THEN [isover |-> TRUE, compcount |-> compcount]
    ELSE [isover |-> (compcount + 1) % rparams.compression = 0,
          compcount |-> compcount + 1]

_calcadjtime(b) ==
    (_gettmpoint(b.datetime) \div rparams.compression
         + (IF rparams.rightedge THEN 1 ELSE 0)) * rparams.compression

_adjusttime(b, greater) ==
    IF greater /\ _calcadjtime(b) <= b.datetime THEN b
    ELSE [b EXCEPT !.datetime = _calcadjtime(b), !.nudge = 0]

doadjusttime == rparams.bar2edge /\ rparams.adjbartime

\* _BaseResampler.__init__ with the parameters prm
ResamplerInit(prm) ==
    /\ rparams = NoResampler
    /\ rparams' = prm
    /\ rbar' = bstart
    /\ compcount' = 0
    /\ UNCHANGED <<nord, ordobj, orders, opending, brackets, notifs, positions,
                   sent, now, exc, nevents, statuslog, orderspending, notified,
                   engine, lifecycle, callbacks, others, rinputs, rstack, rlast,
                   lastret, _firstbar, rstash>>

\* Resampler.__call__ on late data with takelate: the bar is folded in and
\* the aggregate's timestamp set to datetime[-1] + 0.000001
TakeLate(b, in) ==
    LET last_ == rstack[Len(rstack)]
    IN [bupdate(b, in) EXCEPT !.datetime = last_.datetime,
                              !.nudge = last_.nudge + 1]

\* Resampler.__call__ for the bar in of the feed
Call(in) ==
    LET onedge == _dataonedge(in.datetime)
        consumed == onedge
        bar1 == IF consumed THEN bupdate(rbar, in) ELSE rbar
        chk == IF bar1.isopen /\ ~onedge THEN _checkbarover(in.datetime)
               ELSE [isover |-> bar1.isopen, compcount |-> compcount]
        cond == chk.isover
        bar2 == IF ~onedge /\ doadjusttime THEN _adjusttime(bar1, TRUE)
                ELSE bar1
        bar3 == IF cond THEN bstart ELSE bar1
    IN /\ rparams # NoResampler
       /\ ~rparams.replaying
       /\ rinputs' = Append(rinputs, in)
       /\ IF _latedata(in.datetime)
          THEN /\ rbar' = IF rparams.takelate THEN TakeLate(rbar, in) ELSE rbar
               /\ UNCHANGED <<compcount, rstack>>
          ELSE /\ compcount' = chk.compcount
               /\ rstack' = IF cond THEN Append(rstack, lvalues(bar2))
                             ELSE rstack
               /\ rbar' = IF consumed THEN bar3 ELSE bupdate(bar3, in)
       /\ UNCHANGED <<nord, ordobj, orders, opending, brackets, notifs,
                      positions, sent, now, exc, nevents, statuslog,
                      orderspending, notified, engine, lifecycle, callbacks, others,
                      rparams, rlast, lastret, _firstbar, rstash>>

\* the next of the contiguous 1-minute bars of the feed
ResamplerCall(p) ==
    /\ ~rlast
    /\ Len(rinputs) < MaxInputs
    /\ Call(InputBar(rparams.start + Len(rinputs), p))

\* a 1-minute bar of a feed whose bars come in any order
ResamplerCallAt(dt, p) ==
    /\ ~rlast
    /\ Len(rinputs) < MaxLateInputs
    /\ Call(InputBar(dt, p))

\* last() that throws the open aggregate away
LastDropsBar(b) ==
    IF b.isopen
    THEN [bar |-> bstart, out |-> <<>>, ret |-> TRUE]
    ELSE [bar |-> b, out |-> <<>>, ret |-> FALSE]

\* last() that leaves the aggregate open
LastKeepsBar(b) ==
    IF b.isopen
    THEN [bar |-> b, out |-> <<lvalues(b)>>, ret |-> TRUE]
    ELSE [bar |-> b, out |-> <<>>, ret |-> FALSE]

\* Resampler.last on the aggregate b: the aggregate left behind, what goes
\* on the stack and what is returned
last(b) ==
    IF b.isopen
    THEN [bar |-> bstart,
          out |-> <<lvalues(IF doadjusttime THEN _adjusttime(b, FALSE)
                            ELSE b)>>,
          ret |-> TRUE]
    ELSE [bar |-> b, out |-> <<>>, ret |-> FALSE]

\* Resampler.last, when the feed has no more bars; it can be called again
ResamplerLast ==
    /\ rparams # NoResampler
    /\ Len(lastret) < MaxLasts
    /\ rlast' = TRUE
    /\ rstack' = rstack \o last(rbar).out
    /\ rbar' = last(rbar).bar
    /\ lastret' = Append(lastret, last(rbar).ret)
    /\ UNCHANGED <<nord, ordobj, orders, opending, brackets, notifs, positions,
                   sent, now, exc, nevents, statuslog, orderspending, notified,
                   engine, lifecycle, callbacks, others, rparams, compcount, rinputs,
                   _firstbar, rstash>>

\* the resamplers looked at: a compression, any edge parameters, and a first
\* bar on any minute of the first interval from 09:30 on
ResamplerParams ==
    {prm \in [compression : Compressions, bar2edge : BOOLEAN,
              adjbartime : BOOLEAN, rightedge : BOOLEAN, takelate : {TRUE},
              replaying : {FALSE},
              start : T0930..(T0930 + Max(Compressions) - 1)] :
        prm.start < T0930 + prm.compression}

NextResample ==
    \/ \E prm \in ResamplerParams : ResamplerInit(prm)
    \/ \E p \in Prices : ResamplerCall(p)
    \/ ResamplerLast

SpecResample == Init /\ [][NextResample]_vars

\* ---- Replayer; the bars of the output feed are rstack, the last one is the
\* bar the system sees

\* the newest bar of the feed is always taken away
DiscardAlways(fb) == TRUE

\* "only discard data if not firstbar": datafeeds.backwards
Discard(fb) == ~fb

\* datafeeds.backwards on the bars q of the feed: the newest bar is erased
erase(q) == SubSeq(q, 1, Len(q) - 1)

\* datafeeds._updatebar(values, ago) on the bars q of the feed
_updatebar(q, values, ago) == [q EXCEPT ![Len(q) + ago] = values]

\* the feed loads the tick in and Replayer.__call__ runs on it
ReplayerCall(in) ==
    LET late == _latedata(in.datetime)
        onedge == ~late /\ _dataonedge(in.datetime)
        consumed == late \/ onedge
        fwd == Append(rstack, lvalues(bupdate(bstart, in)))
        bar1 == IF late THEN TakeLate(rbar, in)
                ELSE IF onedge THEN bupdate(rbar, in)
                ELSE rbar
        chk == IF consumed THEN [isover |-> onedge, compcount |-> compcount]
               ELSE _checkbarover(in.datetime)
        cond == chk.isover
        adjusted == _calcadjtime(bar1) > bar1.datetime
        bar2 == IF consumed THEN bar1 ELSE bupdate(bar1, in)
        back == IF Discard(_firstbar) THEN erase(fwd) ELSE fwd
    IN /\ rparams # NoResampler
       /\ rparams.replaying
       /\ rstash = <<>>
       /\ Len(rinputs) < MaxTicks
       /\ rinputs' = Append(rinputs, in)
       /\ IF late /\ ~rparams.takelate
          THEN UNCHANGED <<rbar, compcount, rstack, _firstbar, rstash>>
          ELSE /\ compcount' = chk.compcount
               /\ IF cond /\ ~onedge /\ doadjusttime
                  THEN /\ rstack' = erase(IF adjusted
                                           THEN _updatebar(
                                                    fwd,
                                                    lvalues(_adjusttime(bar1,
                                                                        TRUE)),
                                                    -1)
                                           ELSE fwd)
                       /\ rbar' = bupdate(bstart, in)
                       /\ rstash' = <<in>>
                       /\ UNCHANGED _firstbar
                  ELSE IF cond /\ ~consumed
                  THEN /\ rbar' = bupdate(bstart, in)
                       /\ rstack' = fwd
                       /\ UNCHANGED <<_firstbar, rstash>>
                  ELSE IF cond
                  THEN /\ rstack' = _updatebar(back, lvalues(bar1), 0)
                       /\ rbar' = bstart
                       /\ _firstbar' = TRUE
                       /\ UNCHANGED rstash
                  ELSE /\ rbar' = bar2
                       /\ rstack' = _updatebar(back, lvalues(bar2), 0)
                       /\ _firstbar' = FALSE
                       /\ UNCHANGED rstash
       /\ UNCHANGED <<nord, ordobj, orders, opending, brackets, notifs,
                      positions, sent, now, exc, nevents, statuslog,
                      orderspending, notified, engine, lifecycle, callbacks, others,
                      rparams, rlast, lastret>>

\* the tick saved to the stack (and erased from the feed) is loaded from the
\* stack on the feed's next load, past the filters
ReplayerFromStack ==
    /\ rstash # <<>>
    /\ rstack' = Append(rstack, lvalues(bupdate(bstart, rstash[1])))
    /\ rstash' = <<>>
    /\ UNCHANGED <<nord, ordobj, orders, opending, brackets, notifs, positions,
                   sent, now, exc, nevents, statuslog, orderspending, notified,
                   engine, lifecycle, callbacks, others, rparams, rbar, compcount,
                   rinputs, rlast, lastret, _firstbar>>

\* replayers of every kind, fed ticks of the minutes around 09:30 in any order
ReplayParams ==
    [compression : Compressions, bar2edge : BOOLEAN, adjbartime : BOOLEAN,
     rightedge : {TRUE}, takelate : BOOLEAN, replaying : {TRUE},
     start : {T0930}]

TickTimes == (T0930 - 1)..(T0930 + 6)

NextReplay ==
    \/ \E prm \in ReplayParams : ResamplerInit(prm)
    \/ \E dt \in TickTimes : ReplayerCall(InputBar(dt, Min(Prices)))
    \/ ReplayerFromStack

SpecReplay == Init /\ [][NextReplay]_vars

\* ---- trailing stop orders (backtrader/order.py)

RefPrices == {4, 6, 8}

TrailAmounts == {None, 1, 2}

\* trailpercent, in hundredths
TrailPercents == {None, 50}

\* float('inf'): above every price a trailing order can come to
PInf == 2 * Max(RefPrices) + Max(TrailAmounts) + 1

\* OrderData.__init__: the price and the price limit stand in for each other
OrderData(price, pricelimit) ==
    [price |-> IF pricelimit # None /\ price = None THEN pricelimit
               ELSE price,
     pricelimit |-> IF pricelimit = None THEN price ELSE pricelimit]

\* the stop follows every price
AlwaysMove(isbuy, price, stop) == TRUE

\* "move only if needed": the comparisons of Order.trailadjust
MoreFavourable(isbuy, price, stop) ==
    IF isbuy THEN price < stop ELSE price > stop

\* no offset between the stop and the limit is kept
NoLimitOffset(c) == 0

\* self._limitoffset of a trailing order whose created data is c
LimitOffset(c) == c.price - c.pricelimit

\* Order.trailadjust(price) on the order o
trailadjust(o, price) ==
    LET pamount == IF o.trailamount # None THEN o.trailamount
                   ELSE IF o.trailpercent # None
                   THEN (price * o.trailpercent) \div 100
                   ELSE 0
        stop == IF o.isbuy THEN price + pamount ELSE price - pamount
    IN IF MoreFavourable(o.isbuy, stop, o.created.price)
       THEN [o EXCEPT !.created =
                 [price |-> stop,
                  pricelimit |-> IF o.exectype = "StopTrailLimit"
                                 THEN stop - o._limitoffset
                                 ELSE o.created.pricelimit]]
       ELSE o

\* what tlog keeps of a call of trailadjust
Adjusted(o, price) ==
    [price |-> price, stop |-> o.created.price, limit |-> o.created.pricelimit]

\* OrderBase.__init__ of a trailing order, the feed's close being pclose
TrailCreate(isbuy, exectype, price, pricelimit, amount, percent, pclose) ==
    LET price_ == IF price = None /\ pricelimit = None THEN pclose ELSE price
        c == OrderData(price_, pricelimit)
        o == [isbuy |-> isbuy, exectype |-> exectype, price |-> price,
              pricelimit |-> pricelimit, trailamount |-> amount,
              trailpercent |-> percent,
              created |-> [c EXCEPT !.price = IF isbuy THEN PInf ELSE -PInf],
              _limitoffset |-> LimitOffset(c)]
    IN /\ tlog = <<>>
       /\ torder' = trailadjust(o, c.price)
       /\ tlog' = <<Adjusted(trailadjust(o, c.price), c.price)>>
       /\ UNCHANGED <<nord, ordobj, orders, opending, brackets, notifs,
                      positions, sent, now, exc, nevents, statuslog,
                      orderspending, notified, engine, lifecycle, callbacks,
                      rsmp, further, trading, moding, ordering, signalling, iterating>>

\* the broker gives the order the price of a new bar
TrailAdjust(price) ==
    /\ tlog # <<>>
    /\ Len(tlog) <= MaxAdjusts
    /\ torder' = trailadjust(torder, price)
    /\ tlog' = Append(tlog, Adjusted(trailadjust(torder, price), price))
    /\ UNCHANGED <<nord, ordobj, orders, opending, brackets, notifs, positions,
                   sent, now, exc, nevents, statuslog, orderspending, notified,
                   engine, lifecycle, callbacks, rsmp, further, trading, moding, ordering, signalling, iterating>>

NextTrail ==
    \/ \E isbuy \in BOOLEAN, e \in {"StopTrail", "StopTrailLimit"},
          price, pricelimit \in RefPrices \cup {None},
          ta \in TrailAmounts, tp \in TrailPercents :
           TrailCreate(isbuy, e, price, pricelimit, ta, tp, Min(RefPrices))
    \/ \E price \in RefPrices : TrailAdjust(price)

SpecTrail == Init /\ [][NextTrail]_vars

\* ---- trades (Strategy._add_notification, backtrader/strategy.py)

TradeSizes == {-2, -1, 1, 2}

\* Trade(): a trade nothing happened to
NewTrade == [size |-> 0, isopen |-> FALSE, isclosed |-> FALSE,
             justopened |-> FALSE]

\* Trade.update for a part of an execution of the given size
TradeUpdate(t, size) ==
    IF size = 0 THEN t
    ELSE [size |-> t.size + size,
          isopen |-> t.size + size # 0,
          isclosed |-> t.size # 0 /\ t.size + size = 0,
          justopened |-> t.size = 0]

\* Position.update: the parts of an execution of the given size that close
\* and that open the position pos
PositionUpdate(pos, size) ==
    IF pos = 0 \/ (pos > 0) = (size > 0)
    THEN [closed |-> 0, opened |-> size]
    ELSE IF (IF size < 0 THEN -size ELSE size)
               <= (IF pos < 0 THEN -pos ELSE pos)
    THEN [closed |-> size, opened |-> 0]
    ELSE [closed |-> -pos, opened |-> size + pos]

\* the order's execution bits for executions of the given sizes, the
\* position being pos
RECURSIVE ExecutionBits(_, _)
ExecutionBits(pos, sizes) ==
    IF sizes = <<>> THEN <<>>
    ELSE <<PositionUpdate(pos, sizes[1])>>
             \o ExecutionBits(pos + sizes[1], Tail(sizes))

\* every opening part starts a trade of its own
AlwaysNewTrade(t) == TRUE

\* the opening part of an execution starts a new trade
NeedsNewTrade(t) == t.isclosed

\* the body of the loop over the execution bits: st holds the trades of the
\* tradeid, the last of them being the local variable trade, and the
\* trades to notify
OneBit(st, bit) ==
    LET n == Len(st.trades)
        t1 == TradeUpdate(st.trades[n], bit.closed)
        tr1 == IF bit.closed # 0 THEN [st.trades EXCEPT ![n] = t1]
               ELSE st.trades
        pd1 == IF bit.closed # 0 /\ t1.isclosed THEN Append(st.pending, t1)
               ELSE st.pending
        fresh == bit.opened # 0 /\ NeedsNewTrade(tr1[n])
        tr2 == IF fresh THEN Append(tr1, NewTrade) ELSE tr1
        m == Len(tr2)
        t2 == TradeUpdate(tr2[m], bit.opened)
        tr3 == IF bit.opened # 0 THEN [tr2 EXCEPT ![m] = t2] ELSE tr2
        pd2 == IF bit.opened # 0 /\ t2.isclosed THEN Append(pd1, t2) ELSE pd1
        pd3 == IF tr3[m].justopened THEN Append(pd2, tr3[m]) ELSE pd2
    IN [trades |-> tr3, pending |-> pd3]

RECURSIVE Bits(_, _)
Bits(st, bits) ==
    IF bits = <<>> THEN st ELSE Bits(OneBit(st, bits[1]), Tail(bits))

\* Strategy._add_notification for an order of the tradeid tid that was
\* executed in parts of the given sizes
Strategy_add_notification(tid, sizes) ==
    LET datatrades == IF _trades[tid] = <<>> THEN <<NewTrade>>
                      ELSE _trades[tid]
        st == Bits([trades |-> datatrades, pending |-> <<>>],
                   ExecutionBits(tposition, sizes))
    IN /\ nfills < MaxFills
       /\ nfills' = nfills + 1
       /\ tposition' = tposition + SumSeq(sizes)
       /\ _trades' = [_trades EXCEPT ![tid] = st.trades]
       /\ _trades_pending' = st.pending
       /\ UNCHANGED <<nord, ordobj, orders, opending, brackets, notifs,
                      positions, sent, now, exc, nevents, statuslog,
                      orderspending, notified, engine, lifecycle, callbacks,
                      rsmp, further, trailing, moding, ordering, signalling, iterating>>

\* orders of both tradeids, executed at once or in two parts
NextTrade ==
    \E tid \in TradeIds, a \in TradeSizes, b \in TradeSizes \cup {0} :
        Strategy_add_notification(tid, IF b = 0 THEN <<a>> ELSE <<a, b>>)

SpecTrade == Init /\ [][NextTrade]_vars

\* ---- the choice of the loop (Cerebro.run, Cerebro.run_strategies)

RunConfigs ==
    [preload : BOOLEAN, runonce : BOOLEAN, exactbars : {-1, 0, 1},
     live : BOOLEAN, _do_live : BOOLEAN, _do_replay : BOOLEAN,
     called : {TRUE}]

\* Cerebro.run with the parameters and feeds of cfg, up to the strategies
CerebroRun(cfg) ==
    /\ ~runcfg.called
    /\ runcfg' = cfg
    /\ _dorunonce' = (cfg.runonce /\ cfg.exactbars = 0
                         /\ ~(cfg._do_live \/ cfg.live))
    /\ _dopreload' = (cfg.preload /\ (cfg.exactbars # 0 => cfg.exactbars < 1)
                         /\ ~cfg._do_replay /\ ~(cfg._do_live \/ cfg.live))
    /\ UNCHANGED <<nord, ordobj, orders, opending, brackets, notifs, positions,
                   sent, now, exc, nevents, statuslog, orderspending, notified,
                   engine, lifecycle, callbacks, rsmp, further, trailing, trading,
                   ordering, signalling, iterating,
                   indicators, looprun>>

\* the flag is left as it is
KeepRunonce(flag) == flag

\* Cerebro._disable_runonce
_disable_runonce(flag) == FALSE

\* LineIterator.add_indicator, for an indicator within a strategy that is
\* being made
add_indicator(_nextforce) ==
    /\ runcfg.called
    /\ looprun = "none"
    /\ Len(indicators) < MaxIndicators
    /\ indicators' = Append(indicators, _nextforce)
    /\ _dorunonce' = IF _nextforce THEN _disable_runonce(_dorunonce)
                      ELSE _dorunonce
    /\ UNCHANGED <<nord, ordobj, orders, opending, brackets, notifs, positions,
                   sent, now, exc, nevents, statuslog, orderspending, notified,
                   engine, lifecycle, callbacks, rsmp, further, trailing, trading,
                   ordering, signalling, iterating,
                   runcfg, _dopreload, looprun>>

\* Cerebro.run_strategies: the loop taken once the strategies are made
ChooseLoop ==
    /\ runcfg.called
    /\ looprun = "none"
    /\ looprun' = IF _dopreload /\ _dorunonce THEN "_run_once"
                   ELSE "_runnext"
    /\ UNCHANGED <<nord, ordobj, orders, opending, brackets, notifs, positions,
                   sent, now, exc, nevents, statuslog, orderspending, notified,
                   engine, lifecycle, callbacks, rsmp, further, trailing, trading,
                   ordering, signalling, iterating,
                   runcfg, _dorunonce, _dopreload, indicators>>

NextMode ==
    \/ \E cfg \in RunConfigs : CerebroRun(cfg)
    \/ \E f \in BOOLEAN : add_indicator(f)
    \/ ChooseLoop

SpecMode == Init /\ [][NextMode]_vars

\* ---- the order of the feeds within an iteration (Cerebro._runnext,
\* Cerebro._run_once)

\* TimeFrame.Minutes, TimeFrame.Days
TimeFrames == {4, 5}

\* the bars of a feed: up to two, no two of them with the same timestamp
DistinctBarSeqs ==
    {b \in UNION {[1..n -> {1, 2}] : n \in 0..2} :
        \A i \in 1..(Len(b) - 1) : b[i] < b[i + 1]}

\* (x._timeframe, x._compression) of a is below that of b
KeyBelow(a, b) ==
    \/ a._timeframe < b._timeframe
    \/ a._timeframe = b._timeframe /\ a._compression < b._compression

\* the feeds q as they were added
Unsorted(q) == [i \in 1..Len(q) |-> i]

\* sorted(self.datafeeds, key=(x._timeframe, x._compression)), as indexes
\* into the feeds q; Python's sort keeps feeds of equal keys as they were
sorted(q) ==
    CHOOSE p \in [1..Len(q) -> 1..Len(q)] :
        \A i, j \in 1..Len(q) :
            i < j => \/ KeyBelow(q[p[i]], q[p[j]])
                     \/ /\ ~KeyBelow(q[p[j]], q[p[i]])
                        /\ p[i] < p[j]

\* Cerebro.adddata
adddata(tf, comp, b) ==
    /\ loopkind = "none"
    /\ Len(datafeeds) < MaxFeeds
    /\ datafeeds' = Append(datafeeds, [_timeframe |-> tf, _compression |-> comp,
                                       bars |-> b, len |-> 0])
    /\ UNCHANGED <<nord, ordobj, orders, opending, brackets, notifs, positions,
                   sent, now, exc, nevents, statuslog, orderspending, notified,
                   engine, lifecycle, callbacks, rsmp, further, trailing, trading,
                   moding, signalling, iterating, loopkind, processed>>

\* run_strategies enters one of the two loops
EnterLoop(kind) ==
    /\ loopkind = "none"
    /\ datafeeds # <<>>
    /\ loopkind' = kind
    /\ UNCHANGED <<nord, ordobj, orders, opending, brackets, notifs, positions,
                   sent, now, exc, nevents, statuslog, orderspending, notified,
                   engine, lifecycle, callbacks, rsmp, further, trailing, trading,
                   moding, signalling, iterating, datafeeds, processed>>

\* the timestamp of the next bar of the feed d, inf when there is none
PeekOf(d) == IF d.len < Len(d.bars) THEN d.bars[d.len + 1] ELSE Inf

\* one iteration of the loop: the feeds are gone through as sorted, and
\* those whose next bar is at the earliest timestamp deliver it
OrderedIteration(kind) ==
    LET order == sorted(datafeeds)
        dts == [i \in 1..Len(order) |-> PeekOf(datafeeds[order[i]])]
        dt0 == Min(Range(dts))
        delivers(i) == dts[i] <= dt0
        kept(x) == \E i \in 1..Len(order) : order[i] = x /\ delivers(i)
    IN /\ loopkind = kind
       /\ dt0 # Inf
       /\ processed' = Append(processed, SelectSeq(order, kept))
       /\ datafeeds' = [x \in 1..Len(datafeeds) |->
                           IF kept(x)
                           THEN [datafeeds[x] EXCEPT !.len = @ + 1]
                           ELSE datafeeds[x]]
       /\ UNCHANGED <<nord, ordobj, orders, opending, brackets, notifs,
                      positions, sent, now, exc, nevents, statuslog,
                      orderspending, notified, engine, lifecycle, callbacks,
                      rsmp, further, trailing, trading, moding, signalling, iterating,
                      loopkind>>

\* Cerebro._run_once: advance_peek, then advance for dti <= dt0
RunOnceOrdered == OrderedIteration("_run_once")

\* Cerebro._runnext: next for every feed, then rewind for dti > dt0
RunNextOrdered == OrderedIteration("_runnext")

NextOrder ==
    \/ \E tf \in TimeFrames, comp \in Compressions, b \in DistinctBarSeqs :
           adddata(tf, comp, b)
    \/ \E kind \in {"_run_once", "_runnext"} : EnterLoop(kind)
    \/ RunOnceOrdered
    \/ RunNextOrdered

SpecOrder == Init /\ [][NextOrder]_vars

\* ---- SignalStrategy (backtrader/strategy.py)

SignalKinds ==
    {"SIGNAL_LONGSHORT", "SIGNAL_LONG", "SIGNAL_SHORT", "SIGNAL_LONGEXIT",
     "SIGNAL_SHORTEXIT"}

\* what a signal shows on a bar: short, nothing, long
Indications == {-1, 0, 1}

SignalParams ==
    [signals : SUBSET SignalKinds, _accumulate : BOOLEAN,
     _concurrent : BOOLEAN, started : {TRUE}]

\* SignalStrategy._start
SignalStart(prm) ==
    /\ ~sigparams.started
    /\ sigparams' = prm
    /\ _sentinel' = None
    /\ UNCHANGED <<nord, ordobj, orders, opending, brackets, notifs, positions,
                   sent, now, exc, nevents, statuslog, orderspending, notified,
                   engine, lifecycle, callbacks, rsmp, further, trailing, trading,
                   moding, ordering, iterating, sigorders, sigposition>>

\* the guard at the top of _next_signal
Guarded(sentinel_) == sentinel_ # None /\ ~sigparams._concurrent

\* all(x[0] > 0.0 for x in sigs[kind] or nosig), one signal per kind
AllAbove(x, kind) == kind \in sigparams.signals /\ x[kind] > 0

\* all(x[0] < 0.0 for x in sigs[kind] or nosig), one signal per kind
AllBelow(x, kind) == kind \in sigparams.signals /\ x[kind] < 0

\* self.buy / self.sell / self.close of the given size
SignalOrder(isbuy, size, entry) ==
    [isbuy |-> isbuy, size |-> size, entry |-> entry, alive |-> TRUE]

\* the orders a call of _next_signal issues, in their order, the signals
\* showing x
SignalOrders(x) ==
    LET ls_long == AllAbove(x, "SIGNAL_LONGSHORT")
        ls_short == AllBelow(x, "SIGNAL_LONGSHORT")
        l_enter == AllAbove(x, "SIGNAL_LONG")
        s_enter == AllBelow(x, "SIGNAL_SHORT")
        l_exit == AllBelow(x, "SIGNAL_LONGEXIT")
        s_exit == AllAbove(x, "SIGNAL_SHORTEXIT")
        _longexit == "SIGNAL_LONGEXIT" \in sigparams.signals
        _shortexit == "SIGNAL_SHORTEXIT" \in sigparams.signals
        l_rev == ~_longexit /\ s_enter
        s_rev == ~_shortexit /\ l_enter
        l_leave == ~_longexit /\ AllBelow(x, "SIGNAL_LONG")
        s_leave == ~_shortexit /\ AllAbove(x, "SIGNAL_SHORT")
        size == sigposition
        buy_ == <<SignalOrder(TRUE, 1, TRUE)>>
        sell_ == <<SignalOrder(FALSE, 1, TRUE)>>
    IN IF size = 0
       THEN IF ls_long \/ l_enter THEN buy_
            ELSE IF ls_short \/ s_enter THEN sell_
            ELSE <<>>
       ELSE IF size > 0
       THEN (IF ls_short \/ l_exit \/ l_rev \/ l_leave
             THEN <<SignalOrder(FALSE, size, FALSE)>> ELSE <<>>)
            \o (IF ls_short \/ l_rev THEN sell_ ELSE <<>>)
            \o (IF (ls_long \/ l_enter) /\ sigparams._accumulate
                THEN buy_ ELSE <<>>)
       ELSE (IF ls_long \/ s_exit \/ s_rev \/ s_leave
             THEN <<SignalOrder(TRUE, -size, FALSE)>> ELSE <<>>)
            \o (IF ls_long \/ s_rev THEN buy_ ELSE <<>>)
            \o (IF (ls_short \/ s_enter) /\ sigparams._accumulate
                THEN sell_ ELSE <<>>)

\* the last entry order among the new orders q, as an index into the orders
\* issued so far; 0 when there is none
LastEntry(q) ==
    LET idx == {i \in 1..Len(q) : q[i].entry}
    IN IF idx = {} THEN 0 ELSE Len(sigorders) + Max(idx)

\* SignalStrategy._next_signal on a bar where the signals show x
_next_signal(x) ==
    LET new == SignalOrders(x)
    IN /\ sigparams.started
       /\ Len(sigorders) + Len(new) <= MaxSignalOrders
       /\ IF Guarded(_sentinel)
          THEN UNCHANGED <<_sentinel, sigorders>>
          ELSE /\ sigorders' = sigorders \o new
               /\ _sentinel' = IF LastEntry(new) # 0 THEN LastEntry(new)
                                ELSE _sentinel
       /\ UNCHANGED <<nord, ordobj, orders, opending, brackets, notifs,
                      positions, sent, now, exc, nevents, statuslog,
                      orderspending, notified, engine, lifecycle, callbacks,
                      rsmp, further, trailing, trading, moding, ordering, iterating,
                      sigparams, sigposition>>

\* the broker completes (executed) or cancels the order i, and
\* SignalStrategy._notify is called with it
SignalNotify(i, executed) ==
    /\ i \in 1..Len(sigorders)
    /\ sigorders[i].alive
    /\ sigorders' = [sigorders EXCEPT ![i].alive = FALSE]
    /\ sigposition' = IF ~executed THEN sigposition
                       ELSE IF sigorders[i].isbuy
                       THEN sigposition + sigorders[i].size
                       ELSE sigposition - sigorders[i].size
    /\ _sentinel' = IF _sentinel = i THEN None ELSE _sentinel
    /\ UNCHANGED <<nord, ordobj, orders, opending, brackets, notifs, positions,
                   sent, now, exc, nevents, statuslog, orderspending, notified,
                   engine, lifecycle, callbacks, rsmp, further, trailing, trading,
                   moding, ordering, iterating, sigparams>>

NextSignal ==
    \/ \E prm \in SignalParams : SignalStart(prm)
    \/ \E x \in [sigparams.signals -> Indications] : _next_signal(x)
    \/ \E i \in 1..MaxSignalOrders, executed \in BOOLEAN :
           SignalNotify(i, executed)

SpecSignal == Init /\ [][NextSignal]_vars

\* ---- the steps of an iteration that delivered a bar (Cerebro._runnext,
\* Cerebro._run_once)

\* the broker's step is taken before the strategies' next_open
BrokerBeforeOpen(pc, coo) ==
    CASE pc = "feeds" -> "cheat_timers"
      [] pc = "cheat_timers" -> "broker"
      [] pc = "broker" -> IF coo THEN "next_open" ELSE "timers"
      [] pc = "next_open" -> "timers"
      [] pc = "timers" -> "next"
      [] pc = "next" -> "feeds"

\* the step that follows the step pc in the body of the loop
PhaseAfter(pc, coo) ==
    CASE pc = "feeds" -> "cheat_timers"
      [] pc = "cheat_timers" -> IF coo THEN "next_open" ELSE "broker"
      [] pc = "next_open" -> "broker"
      [] pc = "broker" -> "timers"
      [] pc = "timers" -> "next"
      [] pc = "next" -> "feeds"

\* Cerebro.run with the parameter cheat_on_open
IterStart(coo) ==
    /\ iterpc = "idle"
    /\ cheat_on_open' = coo
    /\ iterpc' = "feeds"
    /\ UNCHANGED <<nord, ordobj, orders, opending, brackets, notifs, positions,
                   sent, now, exc, nevents, statuslog, orderspending, notified,
                   engine, lifecycle, callbacks, rsmp, further, trailing, trading,
                   moding, ordering, signalling, iteridx, iterbar, iterlog,
                   iterorders>>

\* the feeds deliver a bar (d0ret)
IterFeeds ==
    /\ iterpc = "feeds"
    /\ iterbar < MaxIterBars
    /\ iterbar' = iterbar + 1
    /\ iterlog' = <<>>
    /\ iterpc' = PhaseAfter(iterpc, cheat_on_open)
    /\ UNCHANGED <<nord, ordobj, orders, opending, brackets, notifs, positions,
                   sent, now, exc, nevents, statuslog, orderspending, notified,
                   engine, lifecycle, callbacks, rsmp, further, trailing, trading,
                   moding, ordering, signalling, cheat_on_open, iteridx,
                   iterorders>>

\* Cerebro._check_timers(runstrats, dt0, cheat)
_check_timers(cheat) ==
    /\ iterpc = IF cheat THEN "cheat_timers" ELSE "timers"
    /\ iterlog' = Append(iterlog, [ev |-> iterpc, strat |-> None])
    /\ iterpc' = PhaseAfter(iterpc, cheat_on_open)
    /\ UNCHANGED <<nord, ordobj, orders, opending, brackets, notifs, positions,
                   sent, now, exc, nevents, statuslog, orderspending, notified,
                   engine, lifecycle, callbacks, rsmp, further, trailing, trading,
                   moding, ordering, signalling, cheat_on_open, iteridx,
                   iterbar, iterorders>>

\* the turn of one strategy in the loop over the strategies at the step pc;
\* its hook may issue an order, which the broker gets at once
StrategyTurn(pc, issues) ==
    /\ iterpc = pc
    /\ issues => Len(iterorders) < MaxIterOrders
    /\ iterlog' = Append(iterlog, [ev |-> pc, strat |-> Strats[iteridx]])
    /\ iterorders' = IF issues
                      THEN Append(iterorders, [hook |-> pc, bar |-> iterbar,
                                               evalbar |-> None])
                      ELSE iterorders
    /\ IF iteridx < Len(Strats)
       THEN iteridx' = iteridx + 1 /\ UNCHANGED iterpc
       ELSE iteridx' = 1 /\ iterpc' = PhaseAfter(iterpc, cheat_on_open)
    /\ UNCHANGED <<nord, ordobj, orders, opending, brackets, notifs, positions,
                   sent, now, exc, nevents, statuslog, orderspending, notified,
                   engine, lifecycle, callbacks, rsmp, further, trailing, trading,
                   moding, ordering, signalling, cheat_on_open, iterbar>>

\* strat._next_open() / strat._oncepost_open()
_next_open(issues) == StrategyTurn("next_open", issues)

\* strat._next() / strat._oncepost(dt0)
_next(issues) == StrategyTurn("next", issues)

\* Cerebro._broker_or_echange_notification: the broker evaluates the orders
\* it holds against the bar
IterBroker ==
    /\ iterpc = "broker"
    /\ iterlog' = Append(iterlog, [ev |-> iterpc, strat |-> None])
    /\ iterorders' = [i \in 1..Len(iterorders) |->
                         IF iterorders[i].evalbar = None
                         THEN [iterorders[i] EXCEPT !.evalbar = iterbar]
                         ELSE iterorders[i]]
    /\ iterpc' = PhaseAfter(iterpc, cheat_on_open)
    /\ UNCHANGED <<nord, ordobj, orders, opending, brackets, notifs, positions,
                   sent, now, exc, nevents, statuslog, orderspending, notified,
                   engine, lifecycle, callbacks, rsmp, further, trailing, trading,
                   moding, ordering, signalling, cheat_on_open, iteridx,
                   iterbar>>

NextIter ==
    \/ \E coo \in BOOLEAN : IterStart(coo)
    \/ IterFeeds
    \/ \E cheat \in BOOLEAN : _check_timers(cheat)
    \/ \E issues \in BOOLEAN : _next_open(issues)
    \/ IterBroker
    \/ \E issues \in BOOLEAN : _next(issues)

SpecIter == Init /\ [][NextIter]_vars

\* resamplers with and without takelate, fed bars of the minutes from 09:29
\* on in any order
LateParams ==
    [compression : Compressions, bar2edge : BOOLEAN, adjbartime : {TRUE},
     rightedge : {TRUE}, takelate : BOOLEAN, replaying : {FALSE},
     start : {T0930}]

NextLate ==
    \/ \E prm \in LateParams : ResamplerInit(prm)
    \/ \E dt \in (T0930 - 1)..(T0930 + MaxLateInputs), p \in Prices :
           ResamplerCallAt(dt, p)
    \/ ResamplerLast

SpecLate == Init /\ [][NextLate]_vars

\* resamplers of any parameters, fed 1-minute bars in order with or without
\* gaps between them, then last()
InOrderParams ==
    [compression : Compressions, bar2edge : BOOLEAN, adjbartime : BOOLEAN,
     rightedge : BOOLEAN, takelate : BOOLEAN, replaying : {FALSE},
     start : {T0930}]

InOrderTimes == T0930..(T0930 + 5)

NextInOrder ==
    \/ \E prm \in InOrderParams : ResamplerInit(prm)
    \/ \E dt \in InOrderTimes, p \in Prices :
           /\ rinputs # <<>> => dt > rinputs[Len(rinputs)].datetime
           /\ ResamplerCallAt(dt, p)
    \/ ResamplerLast

SpecInOrder == Init /\ [][NextInOrder]_vars

\* ---- the loops of Cerebro._runnext and Cerebro._run_once over feeds that
\* may be resampled, replayed or live (backtrader/cerebro.py); the strategies
\* run without cheat_on_open

\* the bars a feed of these runs may hold, by timestamp
LoopBarSeqs == {<<1>>, <<1, 2>>, <<2, 3>>}

\* a feed: its bars, the marks a resampler or a replayer has left on it,
\* whether it is live, and whether its last bar is still open in its
\* resampler when the feed runs dry, to come out with _last() only (a live
\* feed is followed while it delivers)
LoopFeeds ==
    {f \in [bars : LoopBarSeqs, resampling : BOOLEAN, replaying : BOOLEAN,
            live : BOOLEAN, flush : BOOLEAN] :
        /\ f.replaying => f.resampling
        /\ f.flush => f.resampling /\ ~f.live}

\* rsonly of _runnext: the feeds that resample and do not replay
rsonly(feeds) ==
    {i \in 1..Len(feeds) : feeds[i].resampling /\ ~feeds[i].replaying}

onlyresample(feeds) == Len(feeds) = Cardinality(rsonly(feeds))

noresample(feeds) == rsonly(feeds) = {}

\* the bars next() can deliver from feed f
NextLen(f) == Len(f.bars) - (IF f.flush THEN 1 ELSE 0)

\* d.next(ticks=False) of feed i at length n: a bar, None from a live feed
\* whose data is not there yet, False from a feed that is over
FeedRet(i, n, there) ==
    IF n >= NextLen(lfeeds[i]) THEN "end"
    ELSE IF lfeeds[i].live /\ i \notin there THEN "nodata"
    ELSE "bar"

\* the feeds whose timestamps the minimum dt0 is taken over
MinOver(feeds, dts) ==
    IF onlyresample(feeds) \/ noresample(feeds)
    THEN {i \in 1..Len(feeds) : dts[i] # None}
    ELSE {i \in 1..Len(feeds) : dts[i] # None /\ i \notin rsonly(feeds)}

\* dts.index(dt0)
IndexOf(dts, dt0) == Min({i \in 1..Len(dts) : dts[i] = dt0})

\* what every turn of _runnext starts with: the notifications of the store
\* and of the feeds
LoopHead == <<[ev |-> "store", who |-> 0], [ev |-> "data", who |-> 0]>>

\* a loop body that runs the timers and the strategies in every turn
TimersEveryTurn(mid, bar) ==
    LoopHead \o mid
    \o <<[ev |-> "data", who |-> 0], [ev |-> "cheat_timers", who |-> 0],
         [ev |-> "broker", who |-> 0], [ev |-> "timers", who |-> 0]>>
    \o [s \in 1..Len(Strats) |-> [ev |-> "next", who |-> s]]

\* the steps the body of the loop of _runnext has run, in order; the timers
\* and the strategies' _next are run when a bar was delivered or flushed
LoopLog(mid, bar) ==
    LoopHead \o mid
    \o <<[ev |-> "data", who |-> 0]>>
    \o (IF bar THEN <<[ev |-> "cheat_timers", who |-> 0]>> ELSE <<>>)
    \o <<[ev |-> "broker", who |-> 0]>>
    \o (IF bar THEN <<[ev |-> "timers", who |-> 0]>>
                    \o [s \in 1..Len(Strats) |-> [ev |-> "next", who |-> s]]
        ELSE <<>>)

\* Cerebro.run_strategies enters a loop over the feeds
LoopStart(feeds) ==
    /\ lfeeds = <<>>
    /\ lfeeds' = feeds
    /\ lpos' = [lm \in LoopModes |-> [i \in 1..Len(feeds) |-> 0]]
    /\ lpc' = [lm \in LoopModes |->
                  IF lm = "once" /\ \E i \in 1..Len(feeds) :
                                        feeds[i].live \/ feeds[i].replaying
                  THEN "idle" ELSE "loop"]
    /\ UNCHANGED <<nord, ordobj, orders, opending, brackets, notifs, positions,
                   sent, now, exc, nevents, statuslog, orderspending, notified,
                   engine, lifecycle, callbacks, rsmp, trailing, trading,
                   moding, ordering, signalling, iterating, lsteps, calendar,
                   queueing>>

\* the idle turns of a loop so far
IdleTurns(steps) ==
    Cardinality({k \in 1..Len(steps) : steps[k].d0ret = "nodata"})

\* dt0 as the last turn that delivered has left it; at first it is the
\* latest date there is
LastDt0(steps) ==
    LET S == {k \in 1..Len(steps) : steps[k].dt0 # None}
    IN IF S = {} THEN Inf ELSE steps[Max(S)].dt0

\* one turn of the loop of Cerebro._runnext: `there` are the live feeds whose
\* data has come in, `forced` the feeds whose _check(forcedata=dmaster)
\* brings a bar out
RunNextTurn(there, forced) ==
    LET n == Len(lfeeds)
        pos == lpos["next"]
        drets == [i \in 1..n |-> FeedRet(i, pos[i], there)]
        d0ret == IF \E i \in 1..n : drets[i] = "bar" THEN "bar"
                 ELSE IF \E i \in 1..n : drets[i] = "nodata" THEN "nodata"
                 ELSE "end"
        pos1 == [i \in 1..n |-> IF drets[i] = "bar" THEN pos[i] + 1 ELSE pos[i]]
        dts == [i \in 1..n |->
                   IF drets[i] = "bar" THEN lfeeds[i].bars[pos1[i]] ELSE None]
        over == MinOver(lfeeds, dts)
        dt0 == Min({dts[i] : i \in over})
        retried == {i \in forced :
                       /\ drets[i] # "bar"
                       /\ lfeeds[i].resampling
                       /\ pos[i] < Len(lfeeds[i].bars)
                       /\ lfeeds[i].bars[pos[i] + 1] <= dt0}
        dts2 == [i \in 1..n |->
                    IF i \in retried THEN lfeeds[i].bars[pos[i] + 1]
                    ELSE dts[i]]
        pos2 == [i \in 1..n |->
                    IF i \in retried THEN pos[i] + 1
                    ELSE IF dts2[i] # None /\ MustRewind(dts2[i], dt0)
                    THEN pos1[i] - 1
                    ELSE pos1[i]]
        flushed == {i \in 1..n : lfeeds[i].flush /\ pos[i] < Len(lfeeds[i].bars)}
        pos3 == [i \in 1..n |-> IF i \in flushed THEN pos[i] + 1 ELSE pos[i]]
        checks == [i \in 1..n |-> [ev |-> "check", who |-> i]]
        step(ret, dt, master, p, log, pc) ==
            /\ lsteps' = [lsteps EXCEPT !["next"] =
                             Append(@, [d0ret |-> ret, dts |-> dts,
                                        dt0 |-> dt, dmaster |-> master,
                                        grown |-> {i \in 1..n : p[i] > pos[i]},
                                        log |-> log])]
            /\ lpos' = [lpos EXCEPT !["next"] = p]
            /\ lpc' = [lpc EXCEPT !["next"] = pc]
    IN /\ lpc["next"] = "loop"
       /\ d0ret = "nodata" => IdleTurns(lsteps["next"]) < MaxIdleTurns
       /\ CASE d0ret = "bar" /\ over = {} ->
                   \* min() of an empty sequence: ValueError
                   step("bar", None, None, pos1, LoopHead, "raised")
            [] d0ret = "bar" /\ over # {} ->
                   step("bar", dt0, IndexOf(dts, dt0), pos2,
                        LoopLog(<<>>, TRUE), "loop")
            [] d0ret = "nodata" ->
                   step("nodata", None, None, pos, LoopLog(checks, FALSE),
                        "loop")
            [] d0ret = "end" /\ flushed = {} ->
                   step("end", None, None, pos, LoopHead, "ended")
            [] d0ret = "end" /\ flushed # {} ->
                   \* the extra round after _last() has flushed a bar
                   step("end", LastDt0(lsteps["next"]), None, pos3,
                        LoopLog(<<>>, TRUE), "ended")
       /\ UNCHANGED <<nord, ordobj, orders, opending, brackets, notifs, positions,
                      sent, now, exc, nevents, statuslog, orderspending,
                      notified, engine, lifecycle, callbacks, rsmp, trailing,
                      trading, moding, ordering, signalling, iterating, lfeeds,
                      calendar, queueing>>

\* the steps the body of the loop of _run_once runs, in order
OnceLog ==
    <<[ev |-> "cheat_timers", who |-> 0], [ev |-> "broker", who |-> 0],
      [ev |-> "timers", who |-> 0]>>
    \o [s \in 1..Len(Strats) |-> [ev |-> "oncepost", who |-> s]]

\* one turn of the loop of Cerebro._run_once over the preloaded feeds
RunOnceTurn ==
    LET n == Len(lfeeds)
        pos == lpos["once"]
        dts == [i \in 1..n |->
                   IF pos[i] < Len(lfeeds[i].bars)
                   THEN lfeeds[i].bars[pos[i] + 1] ELSE Inf]
        dt0 == Min(Range(dts))
        pos1 == [i \in 1..n |-> IF dts[i] <= dt0 THEN pos[i] + 1 ELSE pos[i]]
    IN /\ lpc["once"] = "loop"
       /\ IF dt0 = Inf
          THEN /\ lsteps' = [lsteps EXCEPT !["once"] =
                                Append(@, [d0ret |-> "end", dts |-> dts,
                                           dt0 |-> None,
                                           dmaster |-> None, grown |-> {},
                                           log |-> <<>>])]
               /\ lpc' = [lpc EXCEPT !["once"] = "ended"]
               /\ UNCHANGED lpos
          ELSE /\ lsteps' = [lsteps EXCEPT !["once"] =
                                Append(@, [d0ret |-> "bar", dts |-> dts,
                                           dt0 |-> dt0, dmaster |-> None,
                                           grown |-> {i \in 1..n :
                                                         pos1[i] > pos[i]},
                                           log |-> OnceLog])]
               /\ lpos' = [lpos EXCEPT !["once"] = pos1]
               /\ UNCHANGED lpc
       /\ UNCHANGED <<nord, ordobj, orders, opending, brackets, notifs, positions,
                      sent, now, exc, nevents, statuslog, orderspending,
                      notified, engine, lifecycle, callbacks, rsmp, trailing,
                      trading, moding, ordering, signalling, iterating, lfeeds,
                      calendar, queueing>>

\* runs over one or two feeds of any kind, in event mode first and in vector
\* mode then
LoopRuns == UNION {[1..n -> LoopFeeds] : n \in 1..2}

NextLoop ==
    \/ \E feeds \in LoopRuns : LoopStart(feeds)
    \/ \E there \in SUBSET {i \in 1..Len(lfeeds) : lfeeds[i].live},
          forced \in SUBSET {i \in 1..Len(lfeeds) : lfeeds[i].resampling} :
           RunNextTurn(there, forced)
    \/ lpc["next"] # "loop" /\ RunOnceTurn

SpecLoop == Init /\ [][NextLoop]_vars

\* the engine thread is never suspended for good: a loop that can take its
\* next turn takes it
SpecLoopFair == SpecLoop /\ WF_vars(NextLoop)

\* ---- CalendarDays, the filter that adds the missing calendar days to a
\* feed of daily bars (backtrader/filters/calendardays.py)

\* the values of fill_price: None, 0 (the last close) and a price; the
\* midpoint fill (-1) differs in the price of the bars only
FillPrices ==
    {NoFillPrice, [given |-> TRUE, value |-> 0], [given |-> TRUE, value |-> 2]}

\* CalendarDays.__init__ with its parameters
CalendarInit(fp) ==
    /\ lastdt = None
    /\ fill_price' = fp
    /\ lastdt' = DateMax
    /\ UNCHANGED <<nord, ordobj, orders, opending, brackets, notifs, positions,
                   sent, now, exc, nevents, statuslog, orderspending, notified,
                   engine, lifecycle, callbacks, rsmp, trailing, trading,
                   moding, ordering, signalling, iterating, looping, cdinputs,
                   cdstream, cdexc, queueing>>

\* the bars _fillbars adds to the stack of the stream, one per turn of its
\* loop `while lastdt < dt: lastdt += ONEDAY`
FillBars(dt, lastdt_, price) ==
    [k \in 1..(dt - lastdt_) |->
        [day |-> lastdt_ + k, close |-> price, filler |-> TRUE]]

\* CalendarDays.__call__ for a bar of the day dt that closed at close_; the
\* stream delivers the stack in the order in which it was filled
CalendarCall(dt, close_) ==
    LET bar == [day |-> dt, close |-> close_, filler |-> FALSE]
        gap == dt - lastdt > 1
        price == IF fill_price.value > 0 THEN fill_price.value
                 ELSE cdinputs[Len(cdinputs)].close
    IN /\ lastdt # None
       /\ cdexc = "none"
       /\ cdinputs # <<>> => dt > cdinputs[Len(cdinputs)].day
       /\ cdinputs' = Append(cdinputs, bar)
       /\ IF gap /\ ~fill_price.given
          THEN \* `self.p.fill_price > 0` with None: TypeError
               /\ cdexc' = "TypeError"
               /\ UNCHANGED <<cdstream, lastdt>>
          ELSE /\ cdstream' = IF gap
                              THEN cdstream \o FillBars(dt, lastdt, price)
                                       \o <<bar>>
                              ELSE Append(cdstream, bar)
               /\ lastdt' = dt
               /\ UNCHANGED cdexc
       /\ UNCHANGED <<nord, ordobj, orders, opending, brackets, notifs, positions,
                      sent, now, exc, nevents, statuslog, orderspending,
                      notified, engine, lifecycle, callbacks, rsmp, trailing,
                      trading, moding, ordering, signalling, iterating, looping,
                      fill_price, queueing>>

NextCalendar ==
    \/ \E fp \in FillPrices : CalendarInit(fp)
    \/ \E dt \in 1..MaxDay, close_ \in Prices : CalendarCall(dt, close_)

SpecCalendar == Init /\ [][NextCalendar]_vars

\* ---- the broker's notification queue between the thread of the store,
\* which appends, and the engine, which drains it one call at a time
\* (oandabroker.py notify, next, get_notification; cerebro.py
\* _broker_or_echange_notification; strategy.py _add_notification, _notify)

\* the clone of the order after its n-th partial execution
QClone(n) ==
    [ref |-> 1, status |-> "Partial", exsize |-> n, p1 |-> 0, p2 |-> 0]

\* OandaBroker.notify, called by the store's thread at any moment
QStoreNotify ==
    /\ Len(qappended) < MaxQueued
    /\ qnotifs' = Append(qnotifs, QClone(Len(qappended) + 1))
    /\ qappended' = Append(qappended, QClone(Len(qappended) + 1))
    /\ UNCHANGED <<nord, ordobj, orders, opending, brackets, notifs, positions,
                   sent, now, exc, nevents, statuslog, orderspending, notified,
                   engine, lifecycle, callbacks, rsmp, trailing, trading,
                   moding, ordering, signalling, iterating, looping, calendar,
                   qpc, qpending, qdelivered>>

\* OandaBroker.next, the first call of _broker_or_echange_notification
QBrokerNext ==
    /\ qpc = "idle"
    /\ qnotifs' = Append(qnotifs, Marker)
    /\ qpc' = "draining"
    /\ UNCHANGED <<nord, ordobj, orders, opending, brackets, notifs, positions,
                   sent, now, exc, nevents, statuslog, orderspending, notified,
                   engine, lifecycle, callbacks, rsmp, trailing, trading,
                   moding, ordering, signalling, iterating, looping, calendar,
                   qpending, qdelivered, qappended>>

\* one turn of the loop of _broker_or_echange_notification
QDrainTurn ==
    LET got == get_notification(qnotifs)
    IN /\ qpc = "draining"
       /\ qnotifs' = got[2]
       /\ IF got[1] = Marker
          THEN qpc' = "drained" /\ UNCHANGED qpending
          ELSE /\ qpending' = _add_notification(qpending, got[1])
               /\ UNCHANGED qpc
       /\ UNCHANGED <<nord, ordobj, orders, opending, brackets, notifs, positions,
                      sent, now, exc, nevents, statuslog, orderspending,
                      notified, engine, lifecycle, callbacks, rsmp, trailing,
                      trading, moding, ordering, signalling, iterating, looping,
                      calendar, qdelivered, qappended>>

\* the rest of the engine's turn: with a bar the strategy's _next runs
\* _notify over _orderspending and clear(); without one the orders wait
QStrategyNext(bar) ==
    /\ qpc = "drained"
    /\ qpc' = "idle"
    /\ IF bar
       THEN qdelivered' = qdelivered \o qpending /\ qpending' = <<>>
       ELSE UNCHANGED <<qdelivered, qpending>>
    /\ UNCHANGED <<nord, ordobj, orders, opending, brackets, notifs, positions,
                   sent, now, exc, nevents, statuslog, orderspending, notified,
                   engine, lifecycle, callbacks, rsmp, trailing, trading,
                   moding, ordering, signalling, iterating, looping, calendar,
                   qnotifs, qappended>>

NextQueue ==
    \/ QStoreNotify
    \/ QBrokerNext
    \/ QDrainTurn
    \/ \E bar \in BOOLEAN : QStrategyNext(bar)

SpecQueue == Init /\ [][NextQueue]_vars

\* the engine's thread goes on, and its feeds deliver bars again and again
SpecQueueFair ==
    /\ SpecQueue
    /\ WF_vars(QBrokerNext) /\ WF_vars(QDrainTurn)
    /\ SF_vars(QStrategyNext(TRUE))

\* ---- Strategy.buy_bracket / sell_bracket (backtrader/strategy.py): up to
\* three calls of buy / sell in one call of the strategy

\* what the order calls read and write
TState ==
    [nord |-> nord, o |-> ordobj, sl |-> statuslog, orders |-> orders,
     opending |-> opending, br |-> brackets, sent |-> sent, exc |-> exc]

\* OandaBroker._transmit for the new order r, on the state ts
TransmitOrder(ts, r, parent, transmit) ==
    LET p == IF parent = None THEN r ELSE parent
        held == ts.opending[p]
    IN IF transmit
       THEN IF r # p
            THEN IF held = <<>> THEN [ts EXCEPT !.exc = "KeyError: pop"]
                 ELSE IF Len(held) = BracketSize - 1
                      THEN [ts EXCEPT
                               !.opending[p] = <<>>,
                               !.orders = @ \cup {held[1], held[2], r},
                               !.br[p] = <<held[1], held[2], r>>,
                               !.sent = Append(@, <<held[1], held[2], r>>)]
                      ELSE [ts EXCEPT !.opending[p] = <<>>,
                                      !.exc = "ValueError: unpack"]
            ELSE [ts EXCEPT !.orders = @ \cup {r}, !.sent = Append(@, <<r>>)]
       ELSE [ts EXCEPT !.opending[p] = Append(@, r)]

\* Strategy.buy / Strategy.sell inside a bracket call; an exception of an
\* earlier call has left the bracket call already
PlaceOrder(ts, isbuy, exectype, parent, transmit) ==
    IF ts.exc # "none" THEN ts
    ELSE TransmitOrder(
             [ts EXCEPT !.nord = @ + 1,
                        !.o = Append(@, NewOrder(isbuy, exectype, NoValid,
                                                 parent, transmit)),
                        !.sl[ts.nord + 1] = <<"Created">>],
             ts.nord + 1, parent, transmit)

\* buy_bracket (isbuy) / sell_bracket: stopexec and limitexec tell whether
\* the execution type of the side is not None, stopprice and limitprice
\* whether its price is not None
Bracket(isbuy, stopexec, stopprice, limitexec, limitprice) ==
    LET o == PlaceOrder(TState, isbuy, "Limit", None, ~limitexec /\ ~stopexec)
        ostop == IF stopexec /\ stopprice
                 THEN PlaceOrder(o, ~isbuy, "Stop", nord + 1, ~limitexec)
                 ELSE o
        olimit == IF limitexec /\ limitprice
                  THEN PlaceOrder(ostop, ~isbuy, "Limit", nord + 1, TRUE)
                  ELSE ostop
    IN /\ nord + BracketSize <= MaxOrders
       /\ nord' = olimit.nord
       /\ ordobj' = olimit.o
       /\ statuslog' = olimit.sl
       /\ orders' = olimit.orders
       /\ opending' = olimit.opending
       /\ brackets' = olimit.br
       /\ sent' = olimit.sent
       /\ exc' = olimit.exc
       /\ UNCHANGED <<notifs, positions, now, nevents, orderspending, notified,
                      engine, lifecycle, callbacks, rsmp, others>>

buy_bracket(stopexec, stopprice, limitexec, limitprice) ==
    Bracket(TRUE, stopexec, stopprice, limitexec, limitprice)

sell_bracket(stopexec, stopprice, limitexec, limitprice) ==
    Bracket(FALSE, stopexec, stopprice, limitexec, limitprice)

\* one bracket call with any of its sides suppressed or without a price,
\* and the store's events for the orders it was handed
NextBracket ==
    \/ /\ Running
       /\ \E stopexec \in BOOLEAN, stopprice \in BOOLEAN,
             limitexec \in BOOLEAN, limitprice \in BOOLEAN :
              \/ buy_bracket(stopexec, stopprice, limitexec, limitprice)
              \/ sell_bracket(stopexec, stopprice, limitexec, limitprice)
    \/ Running /\ nevents < MaxEvents /\ StoreEvent

SpecBracket == Init /\ [][NextBracket]_vars

\* -------------------------------------------------------------- properties

\* the bracket groups handed to the store: <<parent, stop side, limit side>>
Groups ==
    {sent[i] : i \in {j \in 1..Len(sent) :
        /\ Len(sent[j]) = BracketSize
        /\ ordobj[sent[j][1]].parent = None
        /\ ordobj[sent[j][2]].parent = sent[j][1]
        /\ ordobj[sent[j][3]].parent = sent[j][1]}}

\* the transitions of the order state machine of the specification
FSM ==
    {<<"Created", "Submitted">>, <<"Submitted", "Accepted">>,
     <<"Accepted", "Partial">>, <<"Partial", "Completed">>,
     <<"Submitted", "Rejected">>, <<"Submitted", "Expired">>,
     <<"Submitted", "Canceled">>, <<"Accepted", "Canceled">>,
     <<"Accepted", "Expired">>, <<"Accepted", "Margin">>,
     <<"Partial", "Canceled">>}

\* C1: the status values an order takes, one after the other, follow the
\* transitions of the order state machine; no other transition occurs.
C1_StatusPathInFSM ==
    \A r \in 1..nord : \A i \in 1..(Len(statuslog[r]) - 1) :
        statuslog[r][i] # statuslog[r][i + 1]
            => <<statuslog[r][i], statuslog[r][i + 1]>> \in FSM

executed(o) == <<o.exsize, o.remsize, o.exbits, o.exdt>>

\* C2: an order whose status is Completed, Canceled, Expired, Margin or
\* Rejected keeps its status and its executed data in every later step.
C2_TerminalImmutable ==
    [][\A r \in 1..nord :
          ordobj[r].status \in Terminal
              => /\ ordobj'[r].status = ordobj[r].status
                 /\ executed(ordobj'[r]) = executed(ordobj[r])]_vars

\* C3: of the two children of a bracket at most one ever reaches Completed,
\* and while one child is Completed the other is Canceled.
C3_OneChildCompletes ==
    \A g \in Groups :
        /\ ~ ("Completed" \in Range(statuslog[g[2]])
               /\ "Completed" \in Range(statuslog[g[3]]))
        /\ ordobj[g[2]].status = "Completed" => ordobj[g[3]].status = "Canceled"
        /\ ordobj[g[3]].status = "Completed" => ordobj[g[2]].status = "Canceled"

\* C4: the children of a bracket are inactive until the parent has been
\* completely filled, and both are active once the parent is Completed.
C4_ChildrenActiveWithParent ==
    \A g \in Groups :
        /\ (ordobj[g[2]].active \/ ordobj[g[3]].active)
               => "Completed" \in Range(statuslog[g[1]])
        /\ ordobj[g[1]].status = "Completed"
               => ordobj[g[2]].active /\ ordobj[g[3]].active

\* C5: when a cancel or expire event ends the parent of a bracket before it
\* fills, both children are Canceled after that step.
C5_ParentCancelCancelsChildren ==
    [][\A g \in Groups :
          /\ StoreCancel(g[1]) \/ StoreExpire(g[1])
          /\ alive(ordobj[g[1]])
          /\ ordobj[g[1]].exsize = 0
          /\ ordobj'[g[1]].status \in {"Canceled", "Expired"}
          => /\ ordobj'[g[2]].status = "Canceled"
             /\ ordobj'[g[3]].status = "Canceled"]_vars

Held == UNION {Range(opending[p]) : p \in Refs}

SentRefs == UNION {Range(sent[i]) : i \in 1..Len(sent)}

\* C6: an order created with transmit=False is neither in the broker's order
\* table nor sent to the store while it is held; orders are registered exactly
\* when they are sent; and a held order is sent only in one group of parent,
\* stop side and limit side that the transmit=True order closes.
C6_HeldUntilTransmit ==
    /\ orders = SentRefs
    /\ Held \cap orders = {}
    /\ \A i \in 1..Len(sent) :
          /\ Len(sent[i]) \in {1, BracketSize}
          /\ ordobj[sent[i][Len(sent[i])]].transmit
          /\ \A k \in 1..(Len(sent[i]) - 1) : ~ ordobj[sent[i][k]].transmit
    /\ \A r \in 1..nord :
          ordobj[r].transmit /\ ~ (r = nord /\ ~ Running) => r \in orders

C6_BracketSent ==
    \E i \in 1..Len(sent) : Len(sent[i]) = BracketSize

RECURSIVE Squash(_)
\* q without the repetitions of a value next to itself
Squash(q) ==
    IF Len(q) <= 1 THEN q
    ELSE IF q[1] = q[2] THEN Squash(Tail(q))
         ELSE <<q[1]>> \o Squash(Tail(q))

IsPrefix(a, b) == Len(a) <= Len(b) /\ a = SubSeq(b, 1, Len(a))

RECURSIVE StatusesOf(_, _)
\* the statuses the notifications of q show for order r, in the order of q
StatusesOf(q, r) ==
    IF q = <<>> THEN <<>>
    ELSE IF q[1].ref = r THEN <<q[1].status>> \o StatusesOf(Tail(q), r)
         ELSE StatusesOf(Tail(q), r)

\* C9: the notifications the strategy has received for an order show the
\* statuses the order took, in the order it took them, and with those still
\* on their way they show every status the order has taken so far.
C9_NotificationsInTransitionOrder ==
    \A r \in 1..nord :
        /\ IsPrefix(Squash(<<"Created">> \o StatusesOf(notified, r)),
                    Squash(statuslog[r]))
        /\ Squash(<<"Created">>
                  \o StatusesOf(notified \o orderspending \o notifs, r))
              = Squash(statuslog[r])

C9_SubmittedToCompletedDelivered ==
    /\ nord >= 1
    /\ StatusesOf(notified, 1) = <<"Submitted", "Accepted", "Partial", "Completed">>

RECURSIVE Sum(_)
Sum(q) == IF q = <<>> THEN 0 ELSE Head(q) + Sum(Tail(q))

\* C10: for every order the sizes of its execution bits add up to
\* executed.size, and executed.size is the created size less what remains.
C10_ExecutedSizeAccounts ==
    \A r \in 1..nord :
        /\ Sum(ordobj[r].exbits) = ordobj[r].exsize
        /\ ordobj[r].exsize = ordobj[r].size - ordobj[r].remsize

C10_TwoBitsExecuted ==
    \E r \in 1..nord :
        /\ Len(ordobj[r].exbits) >= 2
        /\ ordobj[r].exsize = ordobj[r].size
        /\ ordobj[r].status = "Completed"

\* C7: from one strategy step to the next the strategy's timestamp never
\* decreases.
C7_StrategyTimeMonotonic ==
    \A i \in 1..(Len(sdatetime) - 1) : sdatetime[i] <= sdatetime[i + 1]

C7_TimeAdvancedOverInterleavedFeeds ==
    /\ Len(sdatetime) >= 3
    /\ sdatetime[1] < sdatetime[2]
    /\ sdatetime[2] < sdatetime[3]
    /\ flen["A"] > 0
    /\ flen["B"] > 0
    /\ flen["A"] # flen["B"]

\* the timestamp of the bar a feed holds next, Inf when it holds no more
Pending(d) == IF flen[d] < Len(bars[d]) THEN bars[d][flen[d] + 1] ELSE Inf

Abs(n) == IF n < 0 THEN -n ELSE n

\* C11: for every order the executed size never exceeds the created size in
\* absolute value, and the remaining size never passes zero.
C11_NoOverfill ==
    \A r \in 1..nord :
        /\ Abs(ordobj[r].exsize) <= Abs(ordobj[r].size)
        /\ ordobj[r].remsize * ordobj[r].size >= 0

\* the clones made of order r that are in q, in the order of q
ClonesOf(q, r) == SelectSeq(q, LAMBDA c : c.ref = r)

\* C12: the pending bits of the k-th clone of an order, exbits[p1+1..p2], start
\* where those of the (k-1)-th clone end, and end with the last bit recorded
\* when the clone was made (the bits up to p2 add up to the executed size the
\* clone shows): no bit is pending in two clones and none is skipped.
C12_PendingBitsPartition ==
    \A r \in 1..nord :
        LET cs == ClonesOf(notified \o orderspending \o notifs, r)
        IN /\ \A k \in 1..Len(cs) :
                /\ cs[k].p1 = IF k = 1 THEN 0 ELSE cs[k - 1].p2
                /\ cs[k].p1 <= cs[k].p2
                /\ cs[k].p2 <= Len(ordobj[r].exbits)
                /\ Sum(SubSeq(ordobj[r].exbits, 1, cs[k].p2)) = cs[k].exsize
           /\ Len(cs) > 0 => cs[Len(cs)].p2 = ordobj[r].p2

C12_TwoClonesWithPendingBits ==
    \E j \in 1..Len(notified), k \in 1..Len(notified) :
        /\ j < k
        /\ notified[j].p2 > notified[j].p1
        /\ notified[k].p1 = notified[j].p2
        /\ notified[k].p2 > notified[k].p1

C14_FeedsStoppedOnEveryExit ==
    runpc \in {"done", "raised"} => started = {}

\* C15: when an exception of a strategy's callback has left the run, the
\* _stop of the strategy that was running has been called.
C15_StopHookBeforePropagation ==
    runpc = "raised" => Strats[stratidx] \in stopped
\* C16: an order becomes Expired only if it is not a Market order, it has a
\* validity set and the bar's timestamp is strictly greater than that validity;
\* an order without validity and a Market order never are Expired.
C16_ExpiresOnlyPastValidity ==
    [][\A r \in 1..nord :
          (ordobj'[r].status = "Expired" /\ ordobj[r].status # "Expired") =>
              /\ ordobj[r].exectype # "Market"
              /\ ordobj[r].pvalid # NoValid
              /\ now > ordobj[r].valid
      ]_vars

C16_ExpiredPastValidity ==
    \E r \in 1..nord :
        /\ ordobj[r].status = "Expired"
        /\ ordobj[r].exdt > ordobj[r].valid
        /\ ordobj[r].pvalid = GoodTill(ValidAt)
\* the valid parameters that ask for a day order
DayInputs == {DAY, Delta(0), Numeric(0)}

\* C17: a non-Market order created with a day validity has the end of its
\* creation day as deadline, and an expiry check on a bar past that deadline
\* makes it Expired.
C17_DayOrderExpiresAfterSession ==
    [][\A r \in 1..nord :
          (ordobj[r].exectype # "Market" /\ ordobj[r].pvalid \in DayInputs) =>
              /\ ordobj[r].valid = EndOfDay(ordobj[r].created)
              /\ (StoreExpire(r) /\ now > EndOfDay(ordobj[r].created)) =>
                     ordobj'[r].status = "Expired"
      ]_vars
\* prenext, then nextstart once, then next
Rank(c) == IF c = "prenext" THEN 0 ELSE IF c = "nextstart" THEN 1 ELSE 2

InOrder(log) ==
    \A i \in 1..Len(log), j \in 1..Len(log) :
        i < j => /\ Rank(log[i]) <= Rank(log[j])
                 /\ ~(log[i] = "nextstart" /\ log[j] = "nextstart")

\* C18: over a run the strategy and the indicator get prenext until the
\* minimum period is met, then nextstart exactly once, then next: no second
\* nextstart and no prenext after nextstart, also on ticks where a feed did
\* not advance.
C18_NextstartOnce == InOrder(scalls) /\ InOrder(icalls)
\* the timestamps of a sequence of bars
StampsOf(q) == [i \in 1..Len(q) |-> q[i].datetime]

\* out is the aggregate of the inputs ins
Aggregates(out, ins) ==
    /\ out.members = StampsOf(ins)
    /\ out.open = ins[1].open
    /\ out.close = ins[Len(ins)].close
    /\ out.high = Max({ins[i].high : i \in 1..Len(ins)})
    /\ out.low = Min({ins[i].low : i \in 1..Len(ins)})
    /\ out.volume = Sum([i \in 1..Len(ins) |-> ins[i].volume])

\* C19: with bar2edge off and compression N, the first bar the resampler
\* delivers, unless last() cut it short, is built from exactly the first N
\* inputs, whatever minute the first input falls on: first open, highest high,
\* lowest low, last close, summed volume.
C19_FirstBarOfNInputs ==
    (/\ rparams # NoResampler /\ ~rparams.bar2edge
     /\ Len(rstack) > 0
     /\ ~rlast \/ Len(rinputs) >= rparams.compression) =>
        /\ Len(rinputs) >= rparams.compression
        /\ Aggregates(rstack[1], SubSeq(rinputs, 1, rparams.compression))
\* 1-minute bars from 09:30 on, resampled to 5 minutes with bar2edge,
\* rightedge and adjbartime on
FiveMinutes ==
    rparams = [compression |-> 5, bar2edge |-> TRUE, adjbartime |-> TRUE,
               rightedge |-> TRUE, takelate |-> TRUE, replaying |-> FALSE,
               start |-> T0930]

C21_LastDeliversOnce ==
    [][Len(lastret') > Len(lastret) =>
          LET ret == lastret'[Len(lastret')]
          IN /\ ret = rbar.isopen
             /\ ret => /\ Len(rstack') = Len(rstack) + 1
                        /\ rstack'[Len(rstack')].members = rbar.members
             /\ ~ret => rstack' = rstack
             /\ Len(lastret) > 0 => ~ret /\ rstack' = rstack
      ]_vars

C21_LastCalledTwice ==
    /\ lastret = <<TRUE, FALSE>>
    /\ Len(rstack) > 0
    /\ rstack[Len(rstack)].members # <<>>

\* C22: an input not later than the open aggregate's timestamp is late: with
\* takelate off it is dropped, the aggregate stays as it is and nothing is
\* delivered; with takelate on it is folded into the aggregate, whose
\* timestamp moves forward by one unit and never backwards.
C22_LateDataDroppedOrFolded ==
    [][(Len(rinputs') > Len(rinputs) /\ rbar.isopen
          /\ rinputs'[Len(rinputs')].datetime <= rbar.datetime) =>
          IF rparams.takelate
          THEN /\ rstack' = rstack
               /\ rbar'.members
                      = Append(rbar.members, rinputs'[Len(rinputs')].datetime)
               /\ rbar'.datetime = rbar.datetime
               /\ rbar'.nudge = rbar.nudge + 1
          ELSE rstack' = rstack /\ rbar' = rbar
      ]_vars
\* the length of the output feed, the tick on the feed's stack included
ReplayLen(q, st) == Len(q) + Len(st)

\* the tick given to the replayer in this step
ReplayTick == rinputs'[Len(rinputs')]

\* the tick of this step was dropped as late data
ReplayDropped == rstack' = rstack /\ rbar' = rbar /\ rstash' = rstash

TrailOf(o, price) ==
    IF o.trailamount # None THEN o.trailamount
    ELSE IF o.trailpercent # None THEN (price * o.trailpercent) \div 100
    ELSE 0

\* C24: over the price updates of a StopTrail order the stop of a sell order
\* never decreases and that of a buy order never increases, and it changes
\* only to the new price minus (sell) or plus (buy) the trail amount, when
\* that is more favourable than the stop was
C24_StopNeverMovesUnfavourably ==
    torder.exectype = "StopTrail" =>
        \A i \in 2..Len(tlog) :
            LET was == tlog[i - 1].stop
                is == tlog[i].stop
                amount == TrailOf(torder, tlog[i].price)
            IN /\ torder.isbuy => is <= was
               /\ ~torder.isbuy => is >= was
               /\ is # was =>
                      IF torder.isbuy
                      THEN is = tlog[i].price + amount /\ is < was
                      ELSE is = tlog[i].price - amount /\ is > was

\* the stop of a sell StopTrail order rose with the price and then stayed
\* where it was when the price fell
C24_SellStopRoseAndStayed ==
    /\ torder.exectype = "StopTrail"
    /\ ~torder.isbuy
    /\ Len(tlog) = 3
    /\ tlog[2].stop > tlog[1].stop
    /\ tlog[3].price < tlog[2].price
    /\ tlog[3].stop = tlog[2].stop

\* C25: right after the creation of a StopTrailLimit order and after every
\* trail adjustment, the stop price less the limit price is the price less
\* the price limit the order was created with
C25_LimitOffsetKept ==
    (torder.exectype = "StopTrailLimit" /\ torder.price # None
         /\ torder.pricelimit # None) =>
        \A i \in 1..Len(tlog) :
            tlog[i].stop - tlog[i].limit = torder.price - torder.pricelimit

\* a buy StopTrailLimit order with its limit away from its stop was moved
C25_LimitMovedWithStop ==
    /\ torder.exectype = "StopTrailLimit"
    /\ torder.isbuy
    /\ torder.price # None
    /\ torder.pricelimit # None
    /\ torder.price # torder.pricelimit
    /\ Len(tlog) > 1
    /\ tlog[Len(tlog)].stop < tlog[1].stop
\* C26: of the trades of a tradeid only the newest can be open: a trade is
\* closed exactly when its size is back at zero, and a new trade was made
\* only when the one before it had closed
C26_OneOpenTradePerTradeid ==
    \A tid \in TradeIds :
        \A i \in 1..Len(_trades[tid]) :
            LET t == _trades[tid][i]
            IN /\ t.isclosed <=> t.size = 0
               /\ t.isopen <=> t.size # 0
               /\ i < Len(_trades[tid]) => t.isclosed

\* one execution closed the long trade of a tradeid and opened a short one
C26_ReversedInOneFill ==
    /\ Len(_trades[0]) = 2
    /\ _trades[0][1].isclosed
    /\ _trades[0][2].size < 0
    /\ _trades[0][2].justopened
    /\ Len(_trades_pending) = 2
    /\ _trades_pending[1].isclosed
    /\ _trades_pending[2].isopen
    /\ _trades[1] = <<>>
\* the configuration of the run allows vector mode
VectorAllowed ==
    /\ runcfg.preload
    /\ runcfg.runonce
    /\ runcfg.exactbars = 0
    /\ ~runcfg._do_live
    /\ ~runcfg._do_replay
    /\ ~runcfg.live
    /\ \A i \in 1..Len(indicators) : ~indicators[i]

\* C27: the run is in vector mode only if preload and runonce are on,
\* exactbars is 0, no feed is live or replayed, the live option is off and
\* no indicator requires event mode; every other run is in the event loop
C27_VectorModeOnlyIfAllowed ==
    /\ looprun = "_run_once" => VectorAllowed
    /\ looprun = "_runnext" => ~VectorAllowed

\* one indicator of two requires event mode and the run, which could have
\* been in vector mode, is in the event loop
C27_OneIndicatorDisablesVectorMode ==
    /\ looprun = "_runnext"
    /\ runcfg.preload /\ runcfg.runonce /\ runcfg.exactbars = 0
    /\ ~runcfg._do_live /\ ~runcfg._do_replay /\ ~runcfg.live
    /\ indicators = <<TRUE, FALSE>>
\* C28 as stated: the feeds that deliver bars of one timestamp are processed
\* in the order in which they were added, whatever their timeframes and
\* compressions
C28_ProcessedInInsertionOrder ==
    \A n \in 1..Len(processed) :
        \A i, j \in 1..Len(processed[n]) :
            i < j => processed[n][i] < processed[n][j]

\* C28, amended: the feeds that deliver bars of one timestamp are processed
\* in the order of their (timeframe, compression), and in the order in which
\* they were added where these are equal
C28_ProcessedInKeyOrder ==
    \A n \in 1..Len(processed) :
        \A i, j \in 1..Len(processed[n]) :
            i < j =>
                LET a == datafeeds[processed[n][i]]
                    b == datafeeds[processed[n][j]]
                IN \/ KeyBelow(a, b)
                   \/ ~KeyBelow(b, a) /\ processed[n][i] < processed[n][j]

\* a feed of days was added before a feed of minutes, both delivered a bar
\* of the same timestamp, and the feed of minutes was processed first
C28_LaterFeedProcessedFirst ==
    /\ Len(datafeeds) = 2
    /\ datafeeds[1]._timeframe > datafeeds[2]._timeframe
    /\ processed # <<>>
    /\ processed[Len(processed)] = <<2, 1>>
    /\ datafeeds[1].bars[datafeeds[1].len]
           = datafeeds[2].bars[datafeeds[2].len]
\* the entry orders of the signal strategy that are alive
AliveEntries == {i \in 1..Len(sigorders) :
                    sigorders[i].entry /\ sigorders[i].alive}

\* C29: with _concurrent off at most one entry order of a signal strategy
\* is alive at any moment, whatever the signals and _accumulate
C29_OneEntryOrderAlive ==
    (sigparams.started /\ ~sigparams._concurrent)
        => Cardinality(AliveEntries) <= 1
\* the turns of the strategies at the step ev, in their order
Turns(ev) == [i \in 1..Len(Strats) |-> [ev |-> ev, strat |-> Strats[i]]]

\* what an iteration that delivered a bar runs, in order
IterationOrder ==
    <<[ev |-> "cheat_timers", strat |-> None]>>
        \o (IF cheat_on_open THEN Turns("next_open") ELSE <<>>)
        \o <<[ev |-> "broker", strat |-> None],
             [ev |-> "timers", strat |-> None]>>
        \o Turns("next")

\* C30: an iteration that delivered a bar runs the cheat timers, each
\* strategy's next_open (with cheat_on_open only), the broker's step, the
\* regular timers and each strategy's next, in this order; the broker
\* evaluates an order issued in next_open against the bar it was issued in
C30_IterationOrder ==
    /\ Len(iterlog) <= Len(IterationOrder)
    /\ iterlog = SubSeq(IterationOrder, 1, Len(iterlog))
    /\ \A i \in 1..Len(iterorders) :
           LET o == iterorders[i]
           IN o.hook = "next_open" =>
                  /\ o.evalbar # None => o.evalbar = o.bar
                  /\ (iterbar > o.bar \/ iterpc \in {"timers", "next"})
                         => o.evalbar = o.bar

\* an iteration has run to its end with cheat_on_open, and the order a
\* strategy issued in its next_open was evaluated against that bar
C30_OpenOrderEvaluatedSameBar ==
    /\ cheat_on_open
    /\ iterlog = IterationOrder
    /\ iterbar = 1
    /\ iterorders = <<[hook |-> "next_open", bar |-> 1, evalbar |-> 1]>>

\* the feeds among which the claim looks for the minimum in a step of
\* _runnext: those that produced a bar, without the resample-only feeds when
\* the engine has a feed that is not resample-only
Produced(st) ==
    {i \in 1..Len(lfeeds) :
        /\ st.dts[i] # None
        /\ (rsonly(lfeeds) # 1..Len(lfeeds)) => i \notin rsonly(lfeeds)}

\* C31: in every iteration of _runnext in which a feed produced a bar, dt0 is
\* defined and is the minimum timestamp among the feeds that produced a bar
\* (resample-only feeds left out when the engine has other feeds), and the
\* time master is a feed that holds dt0
C31_Dt0IsMinOfProduced ==
    \A k \in 1..Len(lsteps["next"]) :
        LET st == lsteps["next"][k]
        IN st.d0ret = "bar" =>
               /\ st.dt0 # None
               /\ Produced(st) # {}
               /\ st.dt0 = Min({st.dts[i] : i \in Produced(st)})
               /\ st.dmaster # None
               /\ st.dts[st.dmaster] = st.dt0

\* the events ev in the log of a step
Events(st, ev) == {j \in 1..Len(st.log) : st.log[j].ev = ev}

\* the turns of _runnext in which no feed produced a bar and a feed answered
\* "no data yet"
IdleSteps == {k \in 1..Len(lsteps["next"]) : lsteps["next"][k].d0ret = "nodata"}

Delivered(pos) == SumSeq(pos)

NoneLive == \A i \in 1..Len(lfeeds) : ~lfeeds[i].live

\* a turn of the loop lm advances a feed or ends the loop
TurnAdvancesOrEnds(lm) ==
    lsteps'[lm] # lsteps[lm] =>
        \/ Delivered(lpos'[lm]) > Delivered(lpos[lm])
        \/ lpc'[lm] # "loop"

\* a turn that found every feed exhausted is the last one; it runs the
\* strategies only if a _last() flushed a bar
ExtraRoundOnlyAfterFlush(lm) ==
    \A k \in 1..Len(lsteps[lm]) :
        LET st == lsteps[lm][k]
        IN st.d0ret = "end" =>
               /\ k = Len(lsteps[lm])
               /\ lpc[lm] = "ended"
               /\ Events(st, "next") # {} => st.grown # {}
               /\ Events(st, "oncepost") = {}

\* C33: with feeds that are finite and not live both loops terminate: every
\* turn advances a feed or ends the loop, the turn that finds all feeds
\* exhausted is the last one and calls the strategies only if a last()
\* flushed a bar, and every loop that was entered is left
C33_LoopTerminates ==
    /\ [][NoneLive => \A lm \in LoopModes : TurnAdvancesOrEnds(lm)]_vars
    /\ [](NoneLive => \A lm \in LoopModes : ExtraRoundOnlyAfterFlush(lm))
    /\ (lfeeds # <<>> /\ NoneLive) ~> (\A lm \in LoopModes : lpc[lm] # "loop")

\* both loops have ended over feeds that are not live, the loop of _runnext
\* with an extra round after a flushed bar
C33_BothEndedAfterExtraRound ==
    /\ lfeeds # <<>> /\ NoneLive
    /\ \A lm \in LoopModes : lpc[lm] = "ended"
    /\ LET st == lsteps["next"][Len(lsteps["next"])]
       IN st.d0ret = "end" /\ st.grown # {} /\ Events(st, "next") # {}
    /\ Len(lsteps["once"]) > 1

\* the days of the bars of a stream, in order
DaysOf(q) == [i \in 1..Len(q) |-> q[i].day]

\* C34: the stream behind the CalendarDays filter holds exactly one bar per
\* calendar day from the first input bar to the last: every input bar, and
\* one filler for each day strictly between two consecutive input bars
C34_OneBarPerCalendarDay ==
    (cdexc = "none" /\ cdinputs # <<>>) =>
        LET first == cdinputs[1].day
            last_ == cdinputs[Len(cdinputs)].day
        IN /\ DaysOf(cdstream) = [i \in 1..(last_ - first + 1) |-> first + i - 1]
           /\ \A i \in 1..Len(cdstream) :
                  cdstream[i].filler <=>
                      cdstream[i].day \notin Range(DaysOf(cdinputs))
           /\ \A i \in 1..Len(cdinputs) : cdinputs[i] \in Range(cdstream)

\* the notifications in the queue, without the boundary markers
Waiting(q) == SelectSeq(q, LAMBDA e : e # Marker)

\* the boundary markers in the queue
Markers(q) == {i \in 1..Len(q) : q[i] = Marker}

InactiveChild(r) ==
    /\ r \in orders
    /\ ordobj[r].parent # None
    /\ ~ordobj[r].active
    /\ "Completed" \notin Range(statuslog[ordobj[r].parent])

\* C36: a fill event for a bracket child that is still inactive changes
\* neither the executed size nor the status of the child
C36_NoExecutionOnInactiveChild ==
    [][\A r \in Refs, size \in FillSizes, ttype \in TTypes :
          InactiveChild(r) /\ StoreFill(r, size, ttype)
              => /\ ordobj'[r].exsize = ordobj[r].exsize
                 /\ ordobj'[r].status = ordobj[r].status]_vars

\* Order.expire leaves the order r as it is: a Market order, an order
\* without validity, or a validity the feed's clock has not passed
DoesNotExpire(r) ==
    \/ ordobj[r].exectype = "Market"
    \/ ordobj[r].valid = None
    \/ ~(now > ordobj[r].valid)

\* C37: an expire event for an alive order that does not expire changes the
\* status of no order: the order stays alive and the other orders of its
\* bracket are not canceled
C37_VoidExpireChangesNoStatus ==
    [][\A r \in Refs :
          (r \in orders /\ alive(ordobj[r]) /\ DoesNotExpire(r) /\ StoreExpire(r))
              => \A q \in 1..nord : ordobj'[q].status = ordobj[q].status]_vars

\* C38: every call of buy_bracket or sell_bracket leaves its group
\* transmitted: the last order the call created carries transmit=True, no
\* order is held back in the broker and every order it created was handed
\* to the store
C38_BracketLeavesGroupTransmitted ==
    [][nord' > nord =>
          /\ ordobj'[nord'].transmit
          /\ \A p \in Refs : opending'[p] = <<>>
          /\ \A r \in (nord + 1)..nord' : r \in orders']_vars

RECURSIVE MembersOf(_)
\* the inputs the bars of q were built from, in order
MembersOf(q) == IF q = <<>> THEN <<>> ELSE q[1].members \o MembersOf(Tail(q))

\* the volumes of the bars of q
VolumesOf(q) == [i \in 1..Len(q) |-> q[i].volume]

\* the aggregate that is still open, as a sequence of bars
OpenBar == IF rbar.isopen THEN <<rbar>> ELSE <<>>

\* C39: the resampler folds every in-order input bar into exactly one bar:
\* the inputs of the delivered bars and of the open aggregate are the inputs
\* of the feed, each once and in order, every bar carries the volume of its
\* inputs, and after last() the volumes of the delivered bars sum to the
\* volumes of the inputs
C39_EveryInputInOneBar ==
    /\ MembersOf(rstack \o OpenBar) = StampsOf(rinputs)
    /\ SumSeq(VolumesOf(rstack \o OpenBar)) = SumSeq(VolumesOf(rinputs))
    /\ rlast => /\ ~rbar.isopen
                /\ SumSeq(VolumesOf(rstack)) = SumSeq(VolumesOf(rinputs))

\* last() has flushed the rest of three inputs that went into two bars
C39_TwoBarsAfterLast ==
    /\ rlast
    /\ Len(rinputs) = MaxLateInputs
    /\ Len(rstack) = 2
    /\ Len(rstack[2].members) + Len(rstack[1].members) = MaxLateInputs

\* feeds that are preloaded: none is live or replayed, and preloading has
\* flushed every resampler
Preloaded ==
    /\ lfeeds # <<>>
    /\ \A i \in 1..Len(lfeeds) :
           ~lfeeds[i].live /\ ~lfeeds[i].replaying /\ ~lfeeds[i].flush

\* what a step presents to the strategies: its dt0, the feeds that advanced
\* and the calls of the strategies
Presented(st) ==
    [dt0 |-> st.dt0, grown |-> st.grown,
     calls |-> Cardinality(Events(st, "next") \cup Events(st, "oncepost"))]

\* the steps of the loop lm in which the strategies were called
StepsPresented(lm) ==
    LET shown == SelectSeq(lsteps[lm], LAMBDA st : Presented(st).calls > 0)
    IN [k \in 1..Len(shown) |-> Presented(shown[k])]

\* C40: over the same preloaded feeds the loop of _runnext and the loop of
\* _run_once present the same steps to the strategies: the same dt0 in the
\* same order, the same feeds advanced at each step and the same number of
\* strategy calls
C40_SameStepsInBothModes ==
    (Preloaded /\ \A lm \in LoopModes : lpc[lm] \in {"ended", "raised"})
        => StepsPresented("next") = StepsPresented("once")

====
